---- MODULE Spec2Model ----
(***************************************************************************)
(* Natural-language users query pipeline of p2p-rigid/api-test:            *)
(* the Query Tool (agents/tools/user_query_tools.py), the result schemas   *)
(* (agents/shared/schemas.py), the two resolution strategies and the       *)
(* orchestrator (app/services/users_nl_query_service.py), the endpoint     *)
(* (app/api/v1/routes/agents.py) and the user-data collaborator            *)
(* (app/services/user_service.py, app/repositories).                       *)
(*                                                                         *)
(* Python values are modelled as follows.  An optional value is a set:     *)
(* {} is None and {v} is the value v.  A dict or a keyword-argument list   *)
(* is a function from its keys.  An object is a function from its          *)
(* attribute names.  A datetime is a tick of the write clock and its JSON  *)
(* form is the ISO string of that tick.                                    *)
(***************************************************************************)
EXTENDS Integers, Sequences, FiniteSets, TLC

VARIABLES
    store,      \* rows of the users table, in id order
    clock,      \* number of committed writes (source of created_at/updated_at)
    settings,   \* app.config.settings: the two provider credentials
    environ,    \* os.environ: GOOGLE_API_KEY, OPENROUTER_API_KEY
    phase,      \* "idle": no call in progress; "done": a call has returned
    call,       \* the inputs of the last call
    resp,       \* the outcome of the last call: a returned value or a raised exception
    ops,        \* the outbound operations the last call performed, in order
    tasks,      \* the requests in progress, each at its await point
    sessions    \* the sessions of the service's InMemorySessionService, by id

vars == <<store, clock, settings, environ, phase, call, resp, ops, tasks, sessions>>

(***************************************************************************)
(* Bounds of the model.                                                    *)
(***************************************************************************)
MaxClock == 2
MaxEvents == 2
MaxTasks == 3
MaxWords == 2

(***************************************************************************)
(* Optional values.                                                        *)
(***************************************************************************)
None == {}
Some(v) == {v}
Val(o) == CHOOSE v \in o : TRUE

Last(s) == s[Len(s)]

(***************************************************************************)
(* Program constants.                                                      *)
(***************************************************************************)
DefaultSkip == 0
DefaultLimit == 20
MinUserId == 1
MinLimit == 1
MaxLimit == 100
users_nl_default_limit == 2
users_nl_max_limit == 3
HttpErrorFloor == 400

GooglePlaceholder == "your-google-api-key-here"

UserPublicFields ==
    {"id", "email", "username", "first_name", "last_name", "is_active",
     "created_at", "updated_at"}

UserColumns == UserPublicFields \cup {"password"}

Intents ==
    {"get_user_by_id", "get_user_by_email", "get_user_by_username", "list_users",
     "list_active_users", "clarification_needed", "out_of_scope"}

ResultFields == {"intent", "summary", "data", "filters", "count", "error"}

LookupTypes == {"id", "email", "username", "list"}

ToolParams == {"lookup_type", "user_id", "email", "username", "active_only", "skip", "limit"}

(***************************************************************************)
(* datetime <-> JSON (model_dump(mode="json") / datetime parsing).         *)
(***************************************************************************)
IsoStrings ==
    <<"2024-01-01T00:00:01", "2024-01-01T00:00:02", "2024-01-01T00:00:03",
      "2024-01-01T00:00:04", "2024-01-01T00:00:05", "2024-01-01T00:00:06">>

isoformat(t) == IsoStrings[t]

IsIso(s) == \E t \in 1..Len(IsoStrings) : IsoStrings[t] = s

\* A parse that reads the text in another time zone: one tick later than written
fromisoformat_shifted(s) == (CHOOSE t \in 1..Len(IsoStrings) : IsoStrings[t] = s) + 1

fromisoformat(s) == CHOOSE t \in 1..Len(IsoStrings) : IsoStrings[t] = s

(***************************************************************************)
(* EmailStr: the addresses the validator accepts, and its normal form      *)
(* (the domain part is lower-cased).                                       *)
(***************************************************************************)
EmailNormalForm ==
    [e \in {"a@x.com", "b@x.com", "b@X.com"} |-> IF e = "b@X.com" THEN "b@x.com" ELSE e]

EmailStrOk(e) == e \in DOMAIN EmailNormalForm

EmailStr(e) == EmailNormalForm[e]

(***************************************************************************)
(* Dicts.                                                                  *)
(***************************************************************************)
EmptyDict == [k \in {} |-> {}]

\* {**d, **e}
DictMerge(d, e) ==
    [k \in (DOMAIN d) \cup (DOMAIN e) |-> IF k \in DOMAIN e THEN e[k] ELSE d[k]]

\* kwargs.get(k, default)
Arg(kwargs, k, default) == IF k \in DOMAIN kwargs THEN kwargs[k] ELSE default

\* str.strip() is empty
IsBlank(s) == s \in {"", " "}

(***************************************************************************)
(* UserPublic (agents/shared/schemas.py).  Unknown attributes or keys of   *)
(* the input are ignored (pydantic's default extra="ignore"); a missing    *)
(* field, a malformed email or a malformed datetime is a validation error. *)
(***************************************************************************)
\* UserPublic.model_validate(entity), from_attributes=True
UserPublic_from_attributes(obj) ==
    IF UserPublicFields \subseteq DOMAIN obj /\ EmailStrOk(obj.email)
    THEN Some([f \in UserPublicFields |-> IF f = "email" THEN EmailStr(obj.email) ELSE obj[f]])
    ELSE None

\* A UserPublic declared with extra="allow": the keys it does not know are kept
UserPublic_extra_allow(d) ==
    IF /\ UserPublicFields \subseteq DOMAIN d
       /\ EmailStrOk(d.email)
       /\ IsIso(d.created_at)
       /\ IsIso(d.updated_at)
    THEN Some([f \in DOMAIN d |->
                 CASE f = "email" -> EmailStr(d.email)
                   [] f \in {"created_at", "updated_at"} -> fromisoformat(d[f])
                   [] OTHER -> d[f]])
    ELSE None

\* UserPublic.model_validate(dict) of a JSON item
UserPublic_from_json(d) ==
    IF /\ UserPublicFields \subseteq DOMAIN d
       /\ EmailStrOk(d.email)
       /\ IsIso(d.created_at)
       /\ IsIso(d.updated_at)
    THEN Some([f \in UserPublicFields |->
                 CASE f = "email" -> EmailStr(d.email)
                   [] f \in {"created_at", "updated_at"} -> fromisoformat(d[f])
                   [] OTHER -> d[f]])
    ELSE None

\* UserPublic.model_dump(mode="json")
UserPublic_dump(u) ==
    [f \in DOMAIN u |-> IF f \in {"created_at", "updated_at"} THEN isoformat(u[f]) ELSE u[f]]

(***************************************************************************)
(* UsersQueryResult (agents/shared/schemas.py): closed schema.             *)
(***************************************************************************)
\* UsersQueryResult(intent=..., summary=..., ...): the constructor and its defaults
UsersQueryResult(intent, summary, data, filters, count, error) ==
    [intent |-> intent, summary |-> summary, data |-> data, filters |-> filters,
     count |-> count, error |-> error]

\* UsersQueryResult(intent, summary, error=...): data, filters and count defaulted
ErrorResult(intent, summary, error) ==
    UsersQueryResult(intent, summary, <<>>, EmptyDict, 0, error)

\* A UsersQueryResult without extra="forbid": keys it does not know are ignored
UsersQueryResult_validate_open(d) ==
    LET items == Arg(d, "data", <<>>)
        parsed == [i \in 1..Len(items) |-> UserPublic_from_json(items[i])]
    IN  IF /\ "intent" \in DOMAIN d
           /\ d.intent \in Intents
           /\ "summary" \in DOMAIN d
           /\ \A i \in 1..Len(items) : parsed[i] # None
        THEN Some(UsersQueryResult(d.intent, d.summary,
                                   [i \in 1..Len(items) |-> Val(parsed[i])],
                                   Arg(d, "filters", EmptyDict),
                                   Arg(d, "count", 0),
                                   Arg(d, "error", None)))
        ELSE None

\* UsersQueryResult.model_validate(dict): Some(result) or None (ValidationError)
UsersQueryResult_validate(d) ==
    LET items == Arg(d, "data", <<>>)
        parsed == [i \in 1..Len(items) |-> UserPublic_from_json(items[i])]
    IN  IF /\ DOMAIN d \subseteq ResultFields
           /\ "intent" \in DOMAIN d
           /\ d.intent \in Intents
           /\ "summary" \in DOMAIN d
           /\ \A i \in 1..Len(items) : parsed[i] # None
        THEN Some(UsersQueryResult(d.intent, d.summary,
                                   [i \in 1..Len(items) |-> Val(parsed[i])],
                                   Arg(d, "filters", EmptyDict),
                                   Arg(d, "count", 0),
                                   Arg(d, "error", None)))
        ELSE None

\* UsersQueryResult.model_dump(mode="json")
UsersQueryResult_dump(r) ==
    [intent |-> r.intent, summary |-> r.summary,
     data |-> [i \in 1..Len(r.data) |-> UserPublic_dump(r.data[i])],
     filters |-> r.filters, count |-> r.count, error |-> r.error]

(***************************************************************************)
(* UsersQueryToolInput (agents/shared/schemas.py).                         *)
(***************************************************************************)
\* The field constraints without le=100 on limit
FieldErrors_no_le(v) ==
    {f \in ToolParams :
        CASE f = "lookup_type" -> v.lookup_type = None \/ Val(v.lookup_type) \notin LookupTypes
          [] f = "user_id" -> v.user_id # None /\ Val(v.user_id) < MinUserId
          [] f = "email" -> v.email # None /\ ~EmailStrOk(Val(v.email))
          [] f = "skip" -> Val(v.skip) < DefaultSkip
          [] f = "limit" -> Val(v.limit) < MinLimit
          [] OTHER -> FALSE}

\* the field constraints: Literal, ge=1, EmailStr, ge=0, ge=1/le=100
FieldErrors(v) ==
    {f \in ToolParams :
        CASE f = "lookup_type" -> v.lookup_type = None \/ Val(v.lookup_type) \notin LookupTypes
          [] f = "user_id" -> v.user_id # None /\ Val(v.user_id) < MinUserId
          [] f = "email" -> v.email # None /\ ~EmailStrOk(Val(v.email))
          [] f = "skip" -> Val(v.skip) < DefaultSkip
          [] f = "limit" -> Val(v.limit) < MinLimit \/ Val(v.limit) > MaxLimit
          [] OTHER -> FALSE}

\* The validator when its last check looks at skip only
validate_lookup_requirements_skip_only(self) ==
    IF self.lookup_type = "id" /\ self.user_id = None
    THEN Some("user_id is required when lookup_type='id'")
    ELSE IF self.lookup_type = "email" /\ self.email = None
    THEN Some("email is required when lookup_type='email'")
    ELSE IF self.lookup_type = "username"
            /\ (self.username = None \/ IsBlank(Val(self.username)))
    THEN Some("username is required when lookup_type='username'")
    ELSE IF self.lookup_type # "list" /\ self.skip # DefaultSkip
    THEN Some("skip/limit are only valid when lookup_type='list'")
    ELSE None

\* @model_validator(mode="after"): None, or the ValueError's message
validate_lookup_requirements(self) ==
    IF self.lookup_type = "id" /\ self.user_id = None
    THEN Some("user_id is required when lookup_type='id'")
    ELSE IF self.lookup_type = "email" /\ self.email = None
    THEN Some("email is required when lookup_type='email'")
    ELSE IF self.lookup_type = "username"
            /\ (self.username = None \/ IsBlank(Val(self.username)))
    THEN Some("username is required when lookup_type='username'")
    ELSE IF self.lookup_type # "list"
            /\ (self.skip # DefaultSkip \/ self.limit # DefaultLimit)
    THEN Some("skip/limit are only valid when lookup_type='list'")
    ELSE None

\* UsersQueryToolInput(**v): [ok |-> TRUE, value |-> input] or [ok |-> FALSE, error |-> message]
UsersQueryToolInput(v) ==
    IF FieldErrors(v) # {}
    THEN [ok |-> FALSE, error |-> "validation error for UsersQueryToolInput"]
    ELSE LET self == [lookup_type |-> Val(v.lookup_type),
                      user_id |-> v.user_id,
                      email |-> IF v.email = None THEN None ELSE Some(EmailStr(Val(v.email))),
                      username |-> v.username,
                      active_only |-> Val(v.active_only),
                      skip |-> Val(v.skip),
                      limit |-> Val(v.limit)]
             err == validate_lookup_requirements(self)
         IN  IF err # None
             THEN [ok |-> FALSE, error |-> Val(err)]
             ELSE [ok |-> TRUE, value |-> self]

(***************************************************************************)
(* The user-data collaborator: UserService / UserRepository over the users *)
(* table.  Every operation takes the table and returns the table it leaves *)
(* behind (a SELECT leaves it as it was) with its value, or the exception  *)
(* it raises.                                                              *)
(***************************************************************************)
ReadOps ==
    {"get_user_by_id", "get_user_by_email", "get_by_username", "get_all_users",
     "get_active_users"}

Rows(st, P(_)) == SelectSeq(st, P)

\* result.scalars().first()
First(rows) == IF rows = <<>> THEN None ELSE Some(rows[1])

\* A page that holds one row more than `limit`
Page_one_more(rows, skip, limit) ==
    [i \in 1..(IF Len(rows) - skip < 0 THEN 0
               ELSE IF Len(rows) - skip < limit + 1 THEN Len(rows) - skip ELSE limit + 1)
        |-> rows[skip + i]]

\* select(...).offset(skip).limit(limit)
Page(rows, skip, limit) ==
    [i \in 1..(IF Len(rows) - skip < 0 THEN 0
               ELSE IF Len(rows) - skip < limit THEN Len(rows) - skip ELSE limit)
        |-> rows[skip + i]]

Returned(st, v) == [ok |-> TRUE, value |-> v, store |-> st]

Raised(st, exc, msg) == [ok |-> FALSE, exc |-> exc, error |-> msg, store |-> st]

\* A lookup by id whose query has lost its WHERE clause: the first row, whatever its id
get_user_by_id_any(st, user_id) ==
    IF st = <<>>
    THEN Raised(st, "UserNotFoundException", "User not found: id=" \o ToString(user_id))
    ELSE Returned(st, st[1])

\* UserService.get_user_by_id
get_user_by_id(st, user_id) ==
    LET user == First(Rows(st, LAMBDA r : r.id = user_id))
    IN  IF user = None
        THEN Raised(st, "UserNotFoundException", "User not found: id=" \o ToString(user_id))
        ELSE Returned(st, Val(user))

\* UserService.get_user_by_email
get_user_by_email(st, email) ==
    LET user == First(Rows(st, LAMBDA r : r.email = email))
    IN  IF user = None
        THEN Raised(st, "UserNotFoundException", "User not found: email=" \o email)
        ELSE Returned(st, Val(user))

\* A lookup by username that raises when there is no such user, as the service's lookups do
get_by_username_raising(st, username) ==
    IF \E i \in 1..Len(st) : st[i].username = username
    THEN Returned(st, Some(st[CHOOSE i \in 1..Len(st) : st[i].username = username]))
    ELSE Raised(st, "UserNotFoundException", "User not found: username=" \o username)

\* UserRepository.get_by_username
get_by_username(st, username) ==
    Returned(st, First(Rows(st, LAMBDA r : r.username = username)))

\* A listing that also marks the rows it returns as inactive (an UPDATE .. RETURNING)
get_all_users_marking(st, skip, limit) ==
    Returned([i \in 1..Len(st) |->
                 IF i > skip /\ i <= skip + limit THEN [st[i] EXCEPT !.is_active = FALSE]
                 ELSE st[i]],
             [i \in 1..(IF Len(st) - skip < 0 THEN 0
                        ELSE IF Len(st) - skip < limit THEN Len(st) - skip ELSE limit)
                 |-> st[skip + i]])

\* UserService.get_all_users
get_all_users(st, skip, limit) == Returned(st, Page(st, skip, limit))

\* UserService.get_active_users
get_active_users(st, skip, limit) ==
    Returned(st, Page(Rows(st, LAMBDA r : r.is_active), skip, limit))

\* UserRepository.email_exists / username_exists
email_exists(st, email) == \E i \in 1..Len(st) : st[i].email = email

username_exists(st, username) == \E i \in 1..Len(st) : st[i].username = username

(***************************************************************************)
(* query_users_tool (agents/tools/user_query_tools.py).                    *)
(*   kwargs: the keyword arguments of the call                             *)
(*   st:     the users table                                               *)
(*   fault:  what the data store does in this call: "none", "call" (the    *)
(*           collaborator call raises a database error) or "close" (the    *)
(*           session's close raises on leaving the `async with` block)     *)
(* The outcome is [kind |-> "return", value |-> dict] or                   *)
(* [kind |-> "raise", exc |-> class], with the operations performed and    *)
(* the table left behind.                                                  *)
(***************************************************************************)
Faults == {"none", "call", "close"}

Return(v, o, st) == [kind |-> "return", value |-> v, ops |-> o, store |-> st]

Raise(exc, o, st) == [kind |-> "raise", exc |-> exc, ops |-> o, store |-> st]

FoundSummary(n) == "Found " \o ToString(n) \o " user(s)."

\* lines 26-28: None means "not supplied"
Defaulted(kwargs) ==
    [lookup_type |-> Arg(kwargs, "lookup_type", None),
     user_id |-> Arg(kwargs, "user_id", None),
     email |-> Arg(kwargs, "email", None),
     username |-> Arg(kwargs, "username", None),
     active_only |-> IF Arg(kwargs, "active_only", None) = None
                     THEN Some(FALSE) ELSE kwargs.active_only,
     skip |-> IF Arg(kwargs, "skip", None) = None THEN Some(DefaultSkip) ELSE kwargs.skip,
     limit |-> IF Arg(kwargs, "limit", None) = None THEN Some(DefaultLimit) ELSE kwargs.limit]

\* lines 42-83: the collaborator call of the request, with intent and filters
Dispatch(tool_input, st) ==
    IF tool_input.lookup_type = "id" /\ tool_input.user_id # None
    THEN [op |-> "get_user_by_id",
          got |-> get_user_by_id(st, Val(tool_input.user_id)),
          single |-> TRUE, intent |-> "get_user_by_id",
          filters |-> [user_id |-> Val(tool_input.user_id)]]
    ELSE IF tool_input.lookup_type = "email" /\ tool_input.email # None
    THEN [op |-> "get_user_by_email",
          got |-> get_user_by_email(st, Val(tool_input.email)),
          single |-> TRUE, intent |-> "get_user_by_email",
          filters |-> [email |-> Val(tool_input.email)]]
    ELSE IF tool_input.lookup_type = "username" /\ tool_input.username # None
    THEN [op |-> "get_by_username",
          got |-> get_by_username(st, Val(tool_input.username)),
          single |-> TRUE, intent |-> "get_user_by_username",
          filters |-> [username |-> Val(tool_input.username)]]
    ELSE [op |-> IF tool_input.active_only THEN "get_active_users" ELSE "get_all_users",
          got |-> IF tool_input.active_only
                  THEN get_active_users(st, tool_input.skip, tool_input.limit)
                  ELSE get_all_users(st, tool_input.skip, tool_input.limit),
          single |-> FALSE,
          intent |-> IF tool_input.active_only THEN "list_active_users" ELSE "list_users",
          filters |-> [active_only |-> tool_input.active_only, skip |-> tool_input.skip,
                       limit |-> tool_input.limit]]

\* lines 92-101: project the fetched users and build the result
BuildResult(users, intent, filters, o, st) ==
    LET projected == [i \in 1..Len(users) |-> UserPublic_from_attributes(users[i])]
    IN  IF \E i \in 1..Len(users) : projected[i] = None
        THEN Raise("ValidationError", o, st)
        ELSE LET payload == [i \in 1..Len(users) |-> UserPublic_dump(Val(projected[i]))]
                 data == [i \in 1..Len(payload) |-> Val(UserPublic_from_json(payload[i]))]
             IN  Return(UsersQueryResult_dump(
                            UsersQueryResult(intent, FoundSummary(Len(payload)), data,
                                             filters, Len(payload), None)),
                        o, st)

\* lines 38-101: the `async with AsyncSessionLocal()` block and what follows it
RunQuery(tool_input, st, fault) ==
    LET d == Dispatch(tool_input, st)
        o == <<"open_session", d.op, "close_session">>
    IN  IF fault = "close"
        THEN Raise("SQLAlchemyError", o, d.got.store)
        ELSE IF fault = "call"
        THEN Return(UsersQueryResult_dump(
                        ErrorResult("clarification_needed", "I could not complete that query.",
                                    Some("database error"))),
                    o, st)
        ELSE IF ~d.got.ok
        THEN Return(UsersQueryResult_dump(
                        ErrorResult("clarification_needed", "I could not complete that query.",
                                    Some(d.got.error))),
                    o, d.got.store)
        ELSE IF d.op = "get_by_username" /\ d.got.value = None
        THEN Return(UsersQueryResult_dump(
                        UsersQueryResult("get_user_by_username",
                                         "No user found for that username.", <<>>,
                                         d.filters, 0, None)),
                    o, d.got.store)
        ELSE BuildResult(IF d.op = "get_by_username" THEN <<Val(d.got.value)>>
                         ELSE IF d.single THEN <<d.got.value>> ELSE d.got.value,
                         d.intent, d.filters, o, d.got.store)

\* lines 9-36, then the query: the whole tool
query_users_tool(kwargs, st, fault) ==
    IF ~("lookup_type" \in DOMAIN kwargs /\ DOMAIN kwargs \subseteq ToolParams)
    THEN Raise("TypeError", <<>>, st)
    ELSE LET tool_input == UsersQueryToolInput(Defaulted(kwargs))
         IN  IF ~tool_input.ok
             THEN Return(UsersQueryResult_dump(
                             ErrorResult("clarification_needed",
                                         "I need a bit more detail to run that users query.",
                                         Some(tool_input.error))),
                         <<>>, st)
             ELSE RunQuery(tool_input.value, st, fault)

(***************************************************************************)
(* UsersNlQueryService (app/services/users_nl_query_service.py).           *)
(***************************************************************************)
\* Python truthiness of an optional string
Truthy(o) == o # None /\ Val(o) # ""

\* a or b
Or(a, b) == IF Truthy(a) THEN a ELSE b

\* an outcome, with os.environ as the call leaves it
WithEnviron(out, env) == out @@ [environ |-> env]

\* The google check without the comparison against the placeholder
_ensure_google_api_key_any(cfg, env) ==
    LET key == Or(cfg.google_api_key, env.GOOGLE_API_KEY)
    IN  IF ~Truthy(key) THEN None ELSE key

\* _ensure_google_api_key: the key, or None when RuntimeError is raised
_ensure_google_api_key(cfg, env) ==
    LET key == Or(cfg.google_api_key, env.GOOGLE_API_KEY)
    IN  IF ~Truthy(key) \/ Val(key) = GooglePlaceholder THEN None ELSE key

\* _ensure_openrouter_api_key: the key, or None when RuntimeError is raised
_ensure_openrouter_api_key(cfg, env) ==
    LET key == Or(cfg.openrouter_api_key, env.OPENROUTER_API_KEY)
    IN  IF ~Truthy(key) THEN None ELSE key

\* The texts of the model are made of at most MaxWords of these fragments
Fragments ==
    {"This is out of scope.", "Out Of", " Scope",
     "OUT_OF_SCOPE", "clarification", "more detail", "users"}

\* the characters of a fragment
FragmentChars ==
    [w \in Fragments |->
        CASE w = "This is out of scope." ->
             <<"T", "h", "i", "s", " ", "i", "s", " ", "o", "u", "t", " ", "o", "f",
               " ", "s", "c", "o", "p", "e", ".">>
          [] w = "Out Of" ->
             <<"O", "u", "t", " ", "O", "f">>
          [] w = " Scope" ->
             <<" ", "S", "c", "o", "p", "e">>
          [] w = "OUT_OF_SCOPE" ->
             <<"O", "U", "T", "_", "O", "F", "_", "S", "C", "O", "P", "E">>
          [] w = "clarification" ->
             <<"c", "l", "a", "r", "i", "f", "i", "c", "a", "t", "i", "o", "n">>
          [] w = "more detail" ->
             <<"m", "o", "r", "e", " ", "d", "e", "t", "a", "i", "l">>
          [] w = "users" ->
             <<"u", "s", "e", "r", "s">>]

WordSeqs == UNION {[1..n -> Fragments] : n \in 0..MaxWords}

RECURSIVE Join(_)
Join(ws) == IF ws = <<>> THEN "" ELSE Head(ws) \o Join(Tail(ws))

RECURSIVE Chars(_)
Chars(ws) == IF ws = <<>> THEN <<>> ELSE FragmentChars[Head(ws)] \o Chars(Tail(ws))

\* the characters of a text
Spell(text) == Chars(CHOOSE ws \in WordSeqs : Join(ws) = text)

UpperCase ==
    <<"A", "B", "C", "D", "E", "F", "G", "H", "I", "J", "K", "L", "M", "N", "O", "P",
      "Q", "R", "S", "T", "U", "V", "W", "X", "Y", "Z">>

LowerCase ==
    <<"a", "b", "c", "d", "e", "f", "g", "h", "i", "j", "k", "l", "m", "n", "o", "p",
      "q", "r", "s", "t", "u", "v", "w", "x", "y", "z">>

\* str.lower()
lower(cs) ==
    [k \in 1..Len(cs) |->
        IF \E n \in 1..Len(UpperCase) : UpperCase[n] = cs[k]
        THEN LowerCase[CHOOSE n \in 1..Len(UpperCase) : UpperCase[n] = cs[k]]
        ELSE cs[k]]

\* `sub in text`
Contains(cs, sub) ==
    \E k \in 0..(Len(cs) - Len(sub)) : SubSeq(cs, k + 1, k + Len(sub)) = sub

out_of_scope == <<"o","u","t","_","o","f","_","s","c","o","p","e">>

out_of_scope_words == <<"o","u","t"," ","o","f"," ","s","c","o","p","e">>

clarification == <<"c","l","a","r","i","f","i","c","a","t","i","o","n">>

more_detail == <<"m","o","r","e"," ","d","e","t","a","i","l">>

\* lines 196-199: which of the keywords text.lower() contains
Keywords(text) ==
    LET lowered == lower(Spell(text))
    IN  (IF Contains(lowered, out_of_scope) THEN {"out_of_scope"} ELSE {})
        \cup (IF Contains(lowered, out_of_scope_words) THEN {"out of scope"} ELSE {})
        \cup (IF Contains(lowered, clarification) THEN {"clarification"} ELSE {})
        \cup (IF Contains(lowered, more_detail) THEN {"more detail"} ELSE {})

\* A classifier that looks for the clarification keywords first
_result_from_text_clarification_first(text, limit) ==
    LET lowered == Keywords(text)
        intent == IF "clarification" \in lowered \/ "more detail" \in lowered
                  THEN "clarification_needed"
                  ELSE IF "out_of_scope" \in lowered \/ "out of scope" \in lowered
                  THEN "out_of_scope"
                  ELSE "clarification_needed"
    IN  UsersQueryResult(intent, text, <<>>,
                         IF limit # None THEN [limit |-> Val(limit)] ELSE EmptyDict,
                         0, None)

\* _result_from_text
_result_from_text(text, limit) ==
    LET lowered == Keywords(text)
        intent == IF "out_of_scope" \in lowered \/ "out of scope" \in lowered
                  THEN "out_of_scope"
                  ELSE IF "clarification" \in lowered \/ "more detail" \in lowered
                  THEN "clarification_needed"
                  ELSE "clarification_needed"
    IN  UsersQueryResult(intent, text, <<>>,
                         IF limit # None THEN [limit |-> Val(limit)] ELSE EmptyDict,
                         0, None)

(***************************************************************************)
(* Agent-Runtime strategy.  An event of the stream is [text, fr]: the      *)
(* joined text parts ("" when it has none) and the dict of its last        *)
(* function response (None when it has none).  The runtime produces a      *)
(* function response by calling the bound tool, or delivers a dict of its  *)
(* own.                                                                    *)
(***************************************************************************)
\* A pass over the events that keeps the first function response it meets
RECURSIVE Consume_first_payload(_, _, _)
Consume_first_payload(events, latest_text, tool_payload) ==
    IF events = <<>>
    THEN [latest_text |-> latest_text, tool_payload |-> tool_payload]
    ELSE LET event == Head(events)
         IN  Consume_first_payload(Tail(events),
                     IF event.text # "" THEN event.text ELSE latest_text,
                     IF event.fr # None /\ tool_payload = None THEN event.fr
                     ELSE tool_payload)

\* lines 62-70: one pass over the events
RECURSIVE Consume(_, _, _)
Consume(events, latest_text, tool_payload) ==
    IF events = <<>>
    THEN [latest_text |-> latest_text, tool_payload |-> tool_payload]
    ELSE LET event == Head(events)
         IN  Consume(Tail(events),
                     IF event.text # "" THEN event.text ELSE latest_text,
                     IF event.fr # None THEN event.fr ELSE tool_payload)

\* lines 72-85: the result once the stream has ended
Resolve(acc, limit, o, st) ==
    IF acc.tool_payload # None
    THEN LET result == UsersQueryResult_validate(Val(acc.tool_payload))
         IN  IF result = None
             THEN Raise("ValidationError", o, st)
             ELSE Return(IF Val(result).summary = "" /\ acc.latest_text # ""
                         THEN [Val(result) EXCEPT !.summary = acc.latest_text]
                         ELSE Val(result),
                         o, st)
    ELSE IF acc.latest_text # ""
    THEN Return(_result_from_text(acc.latest_text, limit), o, st)
    ELSE Return(ErrorResult("clarification_needed", "I could not produce a query result.",
                            Some("No tool output received from agent run.")),
                o, st)

\* The runtime runs the agent: every step either emits what it was given or calls the
\* bound tool and emits its result; a tool call that raises ends the run with that exception.
RECURSIVE run_async(_, _, _, _, _)
\* the step in which the agent has called the bound tool and got `out`
tool_step(out, steps, fault, events, o) ==
    IF out.kind = "raise"
    THEN [kind |-> "raise", exc |-> out.exc, events |-> events,
          ops |-> o \o out.ops, store |-> out.store]
    ELSE run_async(Tail(steps), out.store, fault,
                   Append(events, [text |-> Head(steps).text, fr |-> Some(out.value)]),
                   o \o out.ops)

run_async(steps, st, fault, events, o) ==
    IF steps = <<>>
    THEN [kind |-> "end", events |-> events, ops |-> o, store |-> st]
    ELSE IF Head(steps).fr.kind = "tool"
    THEN tool_step(query_users_tool(Head(steps).fr.kwargs, st, fault), steps, fault,
                   events, o)
    ELSE run_async(Tail(steps), st, fault,
                   Append(events,
                          [text |-> Head(steps).text,
                           fr |-> IF Head(steps).fr.kind = "raw"
                                  THEN Some(Head(steps).fr.payload) ELSE None]),
                   o)

\* _query_users_google
\* lines 55-85: what the strategy makes of the finished run
after_run(run, limit) ==
    IF run.kind = "raise"
    THEN Raise(run.exc, run.ops, run.store)
    ELSE Resolve(Consume(run.events, "", None), limit, run.ops, run.store)

_query_users_google(cfg, env, limit, steps, st, fault) ==
    IF _ensure_google_api_key(cfg, env) = None
    THEN WithEnviron(Raise("RuntimeError", <<"_query_users_google">>, st), env)
    ELSE WithEnviron(after_run(run_async(steps, st, fault, <<>>,
                                         <<"_query_users_google", "create_session",
                                           "run_async">>),
                               limit),
                     [env EXCEPT !.GOOGLE_API_KEY = _ensure_google_api_key(cfg, env)])

(***************************************************************************)
(* Direct-Prompt strategy.  The provider's answer is                       *)
(*   [kind |-> "exception"]: requests.post raises (timeout, no connection) *)
(*   [kind |-> "response", status, json, content]: json says whether the   *)
(*   body is JSON; content is choices[0].message.content, described by its *)
(*   form: "missing" (no such key), "null", or a string that is a JSON     *)
(*   "object", a JSON "array", an object in a code block fenced with       *)
(*   ```json ("fenced") or ``` ("fenced_bare"), an object between fences   *)
(*   with a backslash and an s where the line breaks would be              *)
(*   ("fenced_backslash"), or plain "text"; value is the object the string *)
(*   spells.                                                               *)
(***************************************************************************)
\* The content string, as its lexical pieces: "fence" is ```, "object" the text of
\* the object content.value, "array" a JSON array, "newline" a line break, "backslash"
\* the character \, and the others stand for themselves
Pieces(content) ==
    CASE content.form = "object" -> <<"object">>
      [] content.form = "array" -> <<"array">>
      [] content.form = "fenced" ->
            <<"fence", "json", "newline", "object", "newline", "fence">>
      [] content.form = "fenced_bare" -> <<"fence", "newline", "object", "newline", "fence">>
      [] content.form = "fenced_backslash" ->
            <<"fence", "json", "backslash", "s", "object", "backslash", "s", "fence">>
      [] OTHER -> <<"users", "are", "listed">>

PieceAt(ps, k) == IF k \in 1..Len(ps) THEN ps[k] ELSE ""

\* s*
RECURSIVE SkipS(_, _)
SkipS(ps, k) == IF PieceAt(ps, k) = "s" THEN SkipS(ps, k + 1) ELSE k

\* line 184: the pattern tried at position k: a fence, an optional json, then (the
\* pattern is a raw string with two backslashes before each s) a backslash and any
\* number of the letter s, the object, a backslash and any number of s, a fence.
\* The index of the piece of group 1, or 0 when there is no match at k.
FenceMatchAt(ps, k) ==
    LET json == IF PieceAt(ps, k + 1) = "json" THEN k + 2 ELSE k + 1
        open == SkipS(ps, json + 1)
        close == SkipS(ps, open + 2)
    IN  IF /\ PieceAt(ps, k) = "fence"
           /\ PieceAt(ps, json) = "backslash"
           /\ PieceAt(ps, open) = "object"
           /\ PieceAt(ps, open + 1) = "backslash"
           /\ PieceAt(ps, close) = "fence"
        THEN open
        ELSE 0

\* re.search: the first position with a match
re_search(ps) ==
    IF \E k \in 1..Len(ps) : FenceMatchAt(ps, k) # 0
    THEN Some(FenceMatchAt(ps, CHOOSE k \in 1..Len(ps) :
                                  /\ FenceMatchAt(ps, k) # 0
                                  /\ \A j \in 1..(k - 1) : FenceMatchAt(ps, j) = 0))
    ELSE None

\* json.loads of a string and the isinstance test: the dict, or None
loads_dict(ps, content) == IF ps = <<"object">> THEN Some(content.value) ELSE None

\* _parse_json_content: the dict, or None
_parse_json_content(content) ==
    IF loads_dict(Pieces(content), content) # None
    THEN loads_dict(Pieces(content), content)
    ELSE IF re_search(Pieces(content)) # None
    THEN loads_dict(<<Pieces(content)[Val(re_search(Pieces(content)))]>>, content)
    ELSE None

\* _build_openrouter_plan, after requests.post has returned `response`
_build_openrouter_plan(response) ==
    IF response.status >= HttpErrorFloor
    THEN [plan |-> FALSE,
          result |-> ErrorResult("clarification_needed", "OpenRouter request failed.",
                                 Some("HTTP " \o ToString(response.status)))]
    ELSE IF ~response.json \/ response.content.form = "missing"
    THEN [plan |-> FALSE,
          result |-> ErrorResult("clarification_needed",
                                 "OpenRouter returned an invalid response.",
                                 Some("invalid response"))]
    ELSE IF response.content.form = "null"
    THEN [plan |-> FALSE, raise |-> "AttributeError"]
    ELSE LET parsed == _parse_json_content(response.content)
         IN  IF parsed = None
             THEN [plan |-> FALSE,
                   result |-> ErrorResult("clarification_needed",
                                          "Could not parse OpenRouter response.",
                                          Some("Expected JSON object in model output."))]
             ELSE IF "intent" \in DOMAIN Val(parsed)
             THEN LET result == UsersQueryResult_validate(Val(parsed))
                  IN  IF result = None
                      THEN [plan |-> FALSE,
                            result |-> ErrorResult("clarification_needed",
                                                   "Invalid structured response from OpenRouter.",
                                                   Some("validation error for UsersQueryResult"))]
                      ELSE [plan |-> FALSE, result |-> Val(result)]
             ELSE [plan |-> TRUE, args |-> Val(parsed)]

\* _query_users_openrouter
\* lines 97-98: the result of the tool, validated
tool_result(out, o) ==
    IF out.kind = "raise"
    THEN Raise(out.exc, o \o out.ops, out.store)
    ELSE Return(Val(UsersQueryResult_validate(out.value)), o \o out.ops, out.store)

\* A strategy that puts the caller's limit into every plan
run_plan_overwriting(built, limit, st, fault) ==
    IF ~built.plan
    THEN IF "raise" \in DOMAIN built
         THEN Raise(built.raise, <<"_query_users_openrouter", "http_post">>, st)
         ELSE Return(built.result, <<"_query_users_openrouter", "http_post">>, st)
    ELSE tool_result(query_users_tool(IF limit # None
                                      THEN DictMerge(built.args, [limit |-> limit])
                                      ELSE built.args,
                                      st, fault),
                     <<"_query_users_openrouter", "http_post", "query_users_tool">>)

\* lines 90-98: what the strategy does with what _build_openrouter_plan gave it
run_plan(built, limit, st, fault) ==
    IF ~built.plan
    THEN IF "raise" \in DOMAIN built
         THEN Raise(built.raise, <<"_query_users_openrouter", "http_post">>, st)
         ELSE Return(built.result, <<"_query_users_openrouter", "http_post">>, st)
    ELSE tool_result(query_users_tool(IF limit # None /\ "limit" \notin DOMAIN built.args
                                      THEN DictMerge(built.args, [limit |-> limit])
                                      ELSE built.args,
                                      st, fault),
                     <<"_query_users_openrouter", "http_post", "query_users_tool">>)

_query_users_openrouter(cfg, env, limit, answer, st, fault) ==
    IF _ensure_openrouter_api_key(cfg, env) = None
    THEN Raise("RuntimeError", <<"_query_users_openrouter">>, st)
    ELSE IF answer.kind = "exception"
    THEN Raise("RequestException", <<"_query_users_openrouter", "http_post">>, st)
    ELSE run_plan(_build_openrouter_plan(answer), limit, st, fault)

\* A query_users that turns to the agent runtime when the OpenRouter strategy raises
query_users_with_fallback(cfg, env, limit, provider, world, st, fault) ==
    IF provider = "openrouter"
    THEN LET out == _query_users_openrouter(cfg, env, limit, world, st, fault)
         IN  IF out.kind = "raise"
             THEN LET again == _query_users_google(cfg, env, limit, <<>>, out.store, fault)
                  IN  [again EXCEPT !.ops = out.ops \o @]
             ELSE WithEnviron(out, env)
    ELSE _query_users_google(cfg, env, limit, world, st, fault)

\* UsersNlQueryService.query_users: `world` is what the selected provider does
query_users(cfg, env, limit, provider, world, st, fault) ==
    IF provider = "openrouter"
    THEN WithEnviron(_query_users_openrouter(cfg, env, limit, world, st, fault), env)
    ELSE _query_users_google(cfg, env, limit, world, st, fault)

(***************************************************************************)
(* The endpoint (app/api/v1/routes/agents.py).                             *)
(***************************************************************************)
Min(a, b) == IF a < b THEN a ELSE b

\* The limit without the ceiling
EffectiveLimit_no_ceiling(payload_limit) ==
    IF payload_limit # None THEN Val(payload_limit) ELSE users_nl_default_limit

\* lines 17-18
EffectiveLimit(payload_limit) ==
    Min(IF payload_limit # None THEN Val(payload_limit) ELSE users_nl_default_limit,
        users_nl_max_limit)

\* query_users_natural_language, for a request that passed UsersNlQueryRequest
\* lines 20-35: the response made of what query_users returned or raised
respond(out, limit, provider) ==
    IF out.kind = "raise"
    THEN [kind |-> "return", status |-> 500,
          detail |-> IF out.exc = "RuntimeError" THEN "credential is required"
                     ELSE "Failed to process natural-language user query.",
          ops |-> out.ops, store |-> out.store, environ |-> out.environ,
          forwarded |-> limit]
    ELSE [kind |-> "return", status |-> 200,
          value |-> UsersQueryResult_dump(
                       Val(UsersQueryResult_validate(UsersQueryResult_dump(
                           [out.value EXCEPT
                              !.filters = DictMerge(@, [limit |-> limit,
                                                        provider |-> provider])])))),
          ops |-> out.ops, store |-> out.store, environ |-> out.environ,
          forwarded |-> limit]

query_users_natural_language(cfg, env, payload, world, st, fault) ==
    respond(query_users(cfg, env, Some(EffectiveLimit(payload.limit)), payload.provider,
                        world, st, fault),
            EffectiveLimit(payload.limit), payload.provider)

(***************************************************************************)
(* Writes of the collaborator (app/services/user_service.py).              *)
(***************************************************************************)
NewUser(id, email, username, now) ==
    [id |-> id, email |-> email, username |-> username, password |-> "Password123!",
     first_name |-> "Test", last_name |-> "User", is_active |-> TRUE,
     created_at |-> now, updated_at |-> now]

\* UserService.create_user
create_user(st, now, email, username) ==
    IF email_exists(st, email)
    THEN Raised(st, "UserAlreadyExistsException", "email")
    ELSE IF username_exists(st, username)
    THEN Raised(st, "UserAlreadyExistsException", "username")
    ELSE LET user == NewUser(Len(st) + 1, email, username, now)
         IN  Returned(Append(st, user), user)

\* UserService.delete_user: update_user(user_id, is_active=False)
delete_user(st, now, user_id) ==
    LET found == get_user_by_id(st, user_id)
    IN  IF ~found.ok
        THEN found
        ELSE Returned([i \in 1..Len(st) |->
                         IF st[i].id = user_id
                         THEN [st[i] EXCEPT !.is_active = FALSE, !.updated_at = now]
                         ELSE st[i]],
                      TRUE)

(***************************************************************************)
(* Inputs.                                                                 *)
(***************************************************************************)
NewEmails == {"a@x.com", "b@x.com"}

NewUsernames == {"alice", "bob"}

LookupTypeInputs == {"id", "email", "username", "list", "all"}

IdentifierInputs ==
    {[user_id |-> None, email |-> None, username |-> None],
     [user_id |-> Some(0), email |-> None, username |-> None],
     [user_id |-> Some(1), email |-> None, username |-> None],
     [user_id |-> Some(2), email |-> None, username |-> None],
     [user_id |-> None, email |-> Some("a@x.com"), username |-> None],
     [user_id |-> None, email |-> Some("b@X.com"), username |-> None],
     [user_id |-> None, email |-> Some("not-an-email"), username |-> None],
     [user_id |-> None, email |-> None, username |-> Some("alice")],
     [user_id |-> None, email |-> None, username |-> Some("ghost")],
     [user_id |-> None, email |-> None, username |-> Some(" ")],
     [user_id |-> Some(1), email |-> Some("a@x.com"), username |-> None]}

ActiveOnlyInputs == {None, Some(TRUE), Some(FALSE)}

PageInputs ==
    {[skip |-> None, limit |-> None],
     [skip |-> Some(0), limit |-> Some(20)],
     [skip |-> Some(1), limit |-> Some(20)],
     [skip |-> Some(0), limit |-> Some(1)],
     [skip |-> Some(1), limit |-> Some(1)],
     [skip |-> Some(0 - 1), limit |-> Some(20)],
     [skip |-> Some(0), limit |-> Some(0)],
     [skip |-> Some(0), limit |-> Some(100)],
     [skip |-> Some(0), limit |-> Some(101)]}

ToolKwargs(lt, ident, active, page) ==
    [lookup_type |-> Some(lt), user_id |-> ident.user_id, email |-> ident.email,
     username |-> ident.username, active_only |-> active, skip |-> page.skip,
     limit |-> page.limit]

\* every combination of the inputs above
AllToolKwargs ==
    {ToolKwargs(lt, ident, active, page) :
        lt \in LookupTypeInputs, ident \in IdentifierInputs,
        active \in ActiveOnlyInputs, page \in PageInputs}

\* the calls a caller that knows the tool makes
FewToolKwargs ==
    {[lookup_type |-> Some("list")],
     [lookup_type |-> Some("list"), active_only |-> Some(TRUE), skip |-> Some(1),
      limit |-> Some(1)],
     [lookup_type |-> Some("id"), user_id |-> Some(1)],
     [lookup_type |-> Some("email"), email |-> Some("b@X.com")],
     [lookup_type |-> Some("username"), username |-> Some("alice")],
     [lookup_type |-> Some("id")]}

\* What the agent runtime does in one run: at most MaxEvents steps
FabricatedUser ==
    [id |-> 9, email |-> "a@x.com", username |-> "mallory", password |-> "secret",
     first_name |-> "Test", last_name |-> "User", is_active |-> TRUE,
     created_at |-> "2024-01-01T00:00:01", updated_at |-> "2024-01-01T00:00:01"]

FabricatedPayload ==
    [intent |-> "list_users", summary |-> "", data |-> <<FabricatedUser>>,
     filters |-> EmptyDict, count |-> 1, error |-> None]

MalformedPayload == [intent |-> "list_users", summary |-> "Found 3 user(s).", rows |-> 3]

StepInputs ==
    {[text |-> "This is out of scope.", fr |-> [kind |-> "none"]],
     [text |-> "", fr |-> [kind |-> "tool", kwargs |-> [lookup_type |-> Some("list")]]],
     [text |-> "", fr |-> [kind |-> "raw", payload |-> FabricatedPayload]],
     [text |-> "", fr |-> [kind |-> "raw", payload |-> MalformedPayload]]}

StreamInputs == UNION {[1..n -> StepInputs] : n \in 0..MaxEvents}

\* What the model behind the chat-completion endpoint writes
ModelObjects ==
    {[lookup_type |-> Some("list")],
     [lookup_type |-> Some("list"), active_only |-> Some(TRUE), limit |-> Some(100)],
     [lookup_type |-> Some("list"), limit |-> None],
     [lookup_type |-> Some("id"), user_id |-> Some(1)],
     [lookup_type |-> Some("email"), email |-> Some("a@x.com"), limit |-> Some(20)],
     [lookup_type |-> Some("list"), page |-> Some(2)],
     [user_id |-> Some(1)],
     [intent |-> "out_of_scope", summary |-> "Read-only users query endpoint.",
      data |-> <<>>, filters |-> EmptyDict, count |-> 0, error |-> None],
     [intent |-> "clarification_needed", summary |-> "Please clarify your users query.",
      data |-> <<>>, filters |-> EmptyDict, count |-> 0, error |-> None],
     FabricatedPayload,
     MalformedPayload,
     [intent |-> "delete_user", summary |-> "Deleted."],
     [intent |-> "out_of_scope"],
     [intent |-> "list_users", summary |-> "Found 5 user(s).", data |-> <<>>,
      filters |-> EmptyDict, count |-> 5, error |-> None],
     [intent |-> "list_users", summary |-> "Found 0 user(s).", data |-> <<>>,
      filters |-> EmptyDict, count |-> 0, error |-> Some("partial failure")]}

Response(status, json, form, value) ==
    [kind |-> "response", status |-> status, json |-> json,
     content |-> [form |-> form, value |-> value]]

AnswerInputs ==
    {[kind |-> "exception"],
     Response(500, FALSE, "missing", EmptyDict),
     Response(200, FALSE, "missing", EmptyDict),
     Response(200, TRUE, "missing", EmptyDict),
     Response(200, TRUE, "null", EmptyDict),
     Response(200, TRUE, "array", EmptyDict),
     Response(200, TRUE, "text", EmptyDict),
     Response(200, TRUE, "fenced", [lookup_type |-> Some("list")]),
     Response(200, TRUE, "fenced_bare", [lookup_type |-> Some("list")]),
     Response(200, TRUE, "fenced_backslash", [lookup_type |-> Some("list")]),
     Response(302, TRUE, "object", [lookup_type |-> Some("list")])}
    \cup {Response(200, TRUE, "object", d) : d \in ModelObjects}

WorldInputs(provider) == IF provider = "openrouter" THEN AnswerInputs ELSE StreamInputs

\* the data store's behaviours that a call with this provider behaviour can meet
FaultInputs(provider, world) ==
    IF provider = "openrouter" \/ \E i \in 1..Len(world) : world[i].fr.kind = "tool"
    THEN Faults
    ELSE {"none"}

\* The deployments: what settings and the environment hold at start-up
Deployments ==
    {[settings |-> [google_api_key |-> None, openrouter_api_key |-> None],
      environ |-> [GOOGLE_API_KEY |-> None, OPENROUTER_API_KEY |-> None]],
     [settings |-> [google_api_key |-> Some(GooglePlaceholder), openrouter_api_key |-> None],
      environ |-> [GOOGLE_API_KEY |-> Some("g-key"), OPENROUTER_API_KEY |-> Some("or-key")]],
     [settings |-> [google_api_key |-> Some("g-key"), openrouter_api_key |-> Some("or-key")],
      environ |-> [GOOGLE_API_KEY |-> None, OPENROUTER_API_KEY |-> None]],
     [settings |-> [google_api_key |-> None, openrouter_api_key |-> Some("")],
      environ |-> [GOOGLE_API_KEY |-> Some("g-key"), OPENROUTER_API_KEY |-> None]]}

\* the limits callers pass to query_users directly, and the bodies posted to the endpoint
ServiceLimitInputs == {None, Some(20)}

PayloadLimitInputs == {None, Some(0), Some(1), Some(4)}

Providers == {"google", "openrouter"}

\* the data store's behaviour, as far as the call got to see it
Seen(fault, o) == IF \E i \in 1..Len(o) : o[i] = "open_session" THEN fault ELSE "none"

(***************************************************************************)
(* The state machine.                                                      *)
(***************************************************************************)
NoCall == [op |-> "none"]

NoResp == [kind |-> "none"]

Init ==
    /\ store = <<>>
    /\ clock = 0
    /\ \E d \in Deployments : settings = d.settings /\ environ = d.environ
    /\ phase = "idle"
    /\ call = NoCall
    /\ resp = NoResp
    /\ ops = <<>>
    /\ tasks = <<>>
    /\ sessions = <<>>

\* A write through UserService: create_user
CreateUser ==
    /\ phase = "idle"
    /\ clock < MaxClock
    /\ \E email \in NewEmails, username \in NewUsernames :
          LET out == create_user(store, clock + 1, email, username)
          IN  /\ store' = out.store
              /\ clock' = IF out.ok THEN clock + 1 ELSE clock
              /\ call' = [op |-> "create_user", email |-> email, username |-> username]
              /\ resp' = IF out.ok THEN [kind |-> "return", value |-> out.value]
                         ELSE [kind |-> "raise", exc |-> out.exc, field |-> out.error]
    /\ ops' = <<>>
    /\ phase' = "done"
    /\ UNCHANGED <<settings, environ, tasks, sessions>>

\* A write through UserService: delete_user (soft delete)
DeleteUser ==
    /\ phase = "idle"
    /\ clock < MaxClock
    /\ \E user_id \in 1..Cardinality(NewEmails) :
          LET out == delete_user(store, clock + 1, user_id)
          IN  /\ store' = out.store
              /\ clock' = IF out.ok THEN clock + 1 ELSE clock
              /\ call' = [op |-> "delete_user", user_id |-> user_id]
              /\ resp' = IF out.ok THEN [kind |-> "return", value |-> out.value]
                         ELSE [kind |-> "raise", exc |-> out.exc, field |-> out.error]
    /\ ops' = <<>>
    /\ phase' = "done"
    /\ UNCHANGED <<settings, environ, tasks, sessions>>

\* A call of query_users_tool with keyword arguments from `inputs`
ToolCallOn(inputs) ==
    /\ phase = "idle"
    /\ \E kwargs \in inputs, fault \in Faults :
          \E out \in {query_users_tool(kwargs, store, fault)} :
              /\ store' = out.store
              /\ call' = [op |-> "query_users_tool", kwargs |-> kwargs,
                           fault |-> Seen(fault, out.ops)]
              /\ resp' = IF out.kind = "return"
                         THEN [kind |-> "return", value |-> out.value]
                         ELSE [kind |-> "raise", exc |-> out.exc]
              /\ ops' = out.ops
    /\ phase' = "done"
    /\ UNCHANGED <<clock, settings, environ, tasks, sessions>>

ToolCall == ToolCallOn(AllToolKwargs)

ToolCallFew == ToolCallOn(FewToolKwargs)

\* A call of UsersNlQueryService.query_users
QueryUsers ==
    /\ phase = "idle"
    /\ \E limit \in ServiceLimitInputs, provider \in Providers :
          \E world \in WorldInputs(provider) : \E fault \in FaultInputs(provider, world) :
             \E out \in {query_users(settings, environ, limit, provider, world, store,
                                     fault)} :
                 /\ store' = out.store
                 /\ environ' = out.environ
                 /\ call' = [op |-> "query_users", limit |-> limit, provider |-> provider,
                              world |-> world, fault |-> Seen(fault, out.ops)]
                 /\ resp' = IF out.kind = "return"
                            THEN [kind |-> "return", value |-> out.value]
                            ELSE [kind |-> "raise", exc |-> out.exc]
                 /\ ops' = out.ops
    /\ phase' = "done"
    /\ UNCHANGED <<clock, settings, tasks, sessions>>

\* A POST to /api/v1/agents/users/query
NlQueryEndpoint ==
    /\ phase = "idle"
    /\ \E limit \in PayloadLimitInputs, provider \in Providers :
          \E world \in WorldInputs(provider) : \E fault \in FaultInputs(provider, world) :
             LET payload == [limit |-> limit, provider |-> provider]
             IN  IF limit # None /\ Val(limit) < MinLimit
                 THEN /\ call' = [op |-> "endpoint", payload |-> payload]
                      /\ resp' = [kind |-> "return", status |-> 422]
                      /\ ops' = <<>>
                      /\ UNCHANGED <<store, environ>>
                 ELSE \E out \in {query_users_natural_language(settings, environ, payload,
                                                               world, store, fault)} :
                          /\ store' = out.store
                          /\ environ' = out.environ
                          /\ call' = [op |-> "endpoint", payload |-> payload,
                                       world |-> world, fault |-> Seen(fault, out.ops),
                                       forwarded |-> out.forwarded]
                          /\ resp' = IF out.status = 200
                                     THEN [kind |-> "return", status |-> 200,
                                           value |-> out.value]
                                     ELSE [kind |-> "return", status |-> out.status,
                                           detail |-> out.detail]
                          /\ ops' = out.ops
    /\ phase' = "done"
    /\ UNCHANGED <<clock, settings, tasks, sessions>>

\* The caller takes the outcome; nothing of the call is kept
Deliver ==
    /\ phase = "done"
    /\ phase' = "idle"
    /\ call' = NoCall
    /\ resp' = NoResp
    /\ ops' = <<>>
    /\ UNCHANGED <<store, clock, settings, environ, tasks, sessions>>

\* The pipeline: writes, the Query Tool, the service and the endpoint
Next ==
    \/ CreateUser
    \/ DeleteUser
    \/ ToolCallFew
    \/ QueryUsers
    \/ NlQueryEndpoint
    \/ Deliver

Spec == Init /\ [][Next]_vars

\* The Query Tool alone, over every combination of its arguments
InitTool == Init /\ settings.google_api_key = None /\ environ.GOOGLE_API_KEY = None

NextTool ==
    \/ CreateUser
    \/ DeleteUser
    \/ ToolCall
    \/ Deliver

SpecTool == InitTool /\ [][NextTool]_vars

(***************************************************************************)
(* The text classifier alone, over every text of the model.                *)
(***************************************************************************)
TextLimitInputs == {None, Some(MinLimit), Some(DefaultLimit)}

\* A call of _result_from_text with a non-empty text
ResultFromText ==
    /\ phase = "idle"
    /\ \E ws \in WordSeqs \ {<<>>}, limit \in TextLimitInputs :
          \E out \in {_result_from_text(Join(ws), limit)} :
              /\ call' = [op |-> "_result_from_text", words |-> ws, text |-> Join(ws),
                           limit |-> limit]
              /\ resp' = [kind |-> "return", value |-> out]
    /\ ops' = <<>>
    /\ phase' = "done"
    /\ UNCHANGED <<store, clock, settings, environ, tasks, sessions>>

InitText == InitTool

NextText ==
    \/ ResultFromText
    \/ Deliver

SpecText == InitText /\ [][NextText]_vars

(***************************************************************************)
(* Concurrent writes (app/services/user_service.py).  Every request runs   *)
(* in a session of its own; a handler gives way to the others at each      *)
(* `await`.  A row is visible to the others once its transaction has       *)
(* committed, and the users table has a unique index on email and one on   *)
(* username (app/models/entities/user.py), so the INSERT or UPDATE of a    *)
(* value another committed row holds raises IntegrityError.                *)
(*   tasks[i] = [req, pc, user, outcome]: the request, the await it is at, *)
(*   the user that update_user loaded, and how the request ended.          *)
(***************************************************************************)
CreateInputs ==
    {[op |-> "create_user", email |-> e, username |-> u] :
        e \in NewEmails, u \in NewUsernames}

UpdateInputs ==
    {[op |-> "update_user", user_id |-> id, email |-> c.email, username |-> c.username] :
        id \in 1..Cardinality(NewEmails),
        c \in {[email |-> Some("a@x.com"), username |-> None],
               [email |-> None, username |-> Some("alice")],
               [email |-> Some("b@x.com"), username |-> Some("alice")]}}

\* the unique indexes: another row holds the email or the username
UniqueViolation(st, id, email, username) ==
    \E j \in 1..Len(st) :
       st[j].id # id /\ (st[j].email = email \/ st[j].username = username)

Ended(i, how) == tasks' = [tasks EXCEPT ![i].pc = "done", ![i].outcome = Some(how)]

At(i, op, pc) == tasks[i].req.op = op /\ tasks[i].pc = pc

Raises(exc, field) == [kind |-> "raise", exc |-> exc, field |-> field]

\* a request arrives and its handler starts
Begin ==
    /\ Len(tasks) < MaxTasks
    /\ \E req \in CreateInputs \cup UpdateInputs :
          tasks' = Append(tasks, [req |-> req,
                                  pc |-> IF req.op = "create_user" THEN "email_exists"
                                         ELSE "get_user_by_id",
                                  user |-> None, outcome |-> None])
    /\ UNCHANGED <<store, clock, settings, environ, phase, call, resp, ops, sessions>>

\* create_user, lines 31-34: await self.repository.email_exists(email)
CreateEmailExists(i) ==
    /\ At(i, "create_user", "email_exists")
    /\ IF email_exists(store, tasks[i].req.email)
       THEN Ended(i, Raises("UserAlreadyExistsException", "email"))
       ELSE tasks' = [tasks EXCEPT ![i].pc = "username_exists"]
    /\ UNCHANGED <<store, clock, settings, environ, phase, call, resp, ops, sessions>>

\* create_user, lines 36-39: await self.repository.username_exists(username)
CreateUsernameExists(i) ==
    /\ At(i, "create_user", "username_exists")
    /\ IF username_exists(store, tasks[i].req.username)
       THEN Ended(i, Raises("UserAlreadyExistsException", "username"))
       ELSE tasks' = [tasks EXCEPT ![i].pc = "create"]
    /\ UNCHANGED <<store, clock, settings, environ, phase, call, resp, ops, sessions>>

\* create_user, lines 41-53: the INSERT and its commit
CreateInsert(i) ==
    /\ At(i, "create_user", "create")
    /\ IF UniqueViolation(store, Len(store) + 1, tasks[i].req.email, tasks[i].req.username)
       THEN /\ Ended(i, Raises("IntegrityError", "unique"))
            /\ UNCHANGED <<store, clock>>
       ELSE /\ store' = Append(store, NewUser(Len(store) + 1, tasks[i].req.email,
                                              tasks[i].req.username, clock + 1))
            /\ clock' = clock + 1
            /\ Ended(i, [kind |-> "return"])
    /\ UNCHANGED <<settings, environ, phase, call, resp, ops, sessions>>

\* update_user, line 103: user = await self.get_user_by_id(user_id)
UpdateGetUser(i) ==
    /\ At(i, "update_user", "get_user_by_id")
    /\ IF get_user_by_id(store, tasks[i].req.user_id).ok
       THEN tasks' = [tasks EXCEPT
                        ![i].user = Some(get_user_by_id(store, tasks[i].req.user_id).value),
                        ![i].pc = "email_exists"]
       ELSE Ended(i, Raises("UserNotFoundException", "id"))
    /\ UNCHANGED <<store, clock, settings, environ, phase, call, resp, ops, sessions>>

\* update_user, lines 107-111
UpdateEmailExists(i) ==
    /\ At(i, "update_user", "email_exists")
    /\ IF /\ tasks[i].req.email # None
          /\ Val(tasks[i].req.email) # Val(tasks[i].user).email
          /\ email_exists(store, Val(tasks[i].req.email))
       THEN Ended(i, Raises("UserAlreadyExistsException", "email"))
       ELSE tasks' = [tasks EXCEPT ![i].pc = "username_exists"]
    /\ UNCHANGED <<store, clock, settings, environ, phase, call, resp, ops, sessions>>

\* update_user, lines 113-117
UpdateUsernameExists(i) ==
    /\ At(i, "update_user", "username_exists")
    /\ IF /\ tasks[i].req.username # None
          /\ Val(tasks[i].req.username) # Val(tasks[i].user).username
          /\ username_exists(store, Val(tasks[i].req.username))
       THEN Ended(i, Raises("UserAlreadyExistsException", "username"))
       ELSE tasks' = [tasks EXCEPT ![i].pc = "update"]
    /\ UNCHANGED <<store, clock, settings, environ, phase, call, resp, ops, sessions>>

\* the row of user_id with the fields of the request written into it
Updated(row, req, now) ==
    [row EXCEPT !.email = IF req.email # None THEN Val(req.email) ELSE @,
                !.username = IF req.username # None THEN Val(req.username) ELSE @,
                !.updated_at = now]

\* update_user, lines 128-136: the UPDATE .. RETURNING and its commit
UpdateWrite(i) ==
    /\ At(i, "update_user", "update")
    /\ \E k \in 1..Len(store) :
          /\ store[k].id = tasks[i].req.user_id
          /\ IF UniqueViolation(store, store[k].id,
                                Updated(store[k], tasks[i].req, clock + 1).email,
                                Updated(store[k], tasks[i].req, clock + 1).username)
             THEN /\ Ended(i, Raises("IntegrityError", "unique"))
                  /\ UNCHANGED <<store, clock>>
             ELSE /\ store' = [store EXCEPT ![k] = Updated(store[k], tasks[i].req, clock + 1)]
                  /\ clock' = clock + 1
                  /\ Ended(i, [kind |-> "return"])
    /\ UNCHANGED <<settings, environ, phase, call, resp, ops, sessions>>

InitUsers == InitTool

NextUsers ==
    \/ Begin
    \/ \E i \in 1..Len(tasks) : CreateEmailExists(i)
    \/ \E i \in 1..Len(tasks) : CreateUsernameExists(i)
    \/ \E i \in 1..Len(tasks) : CreateInsert(i)
    \/ \E i \in 1..Len(tasks) : UpdateGetUser(i)
    \/ \E i \in 1..Len(tasks) : UpdateEmailExists(i)
    \/ \E i \in 1..Len(tasks) : UpdateUsernameExists(i)
    \/ \E i \in 1..Len(tasks) : UpdateWrite(i)

SpecUsers == InitUsers /\ [][NextUsers]_vars

(***************************************************************************)
(* Concurrent Agent-Runtime calls on the one service instance              *)
(* (users_nl_query_service.py:224).  A call of query_users is a coroutine: *)
(* latest_text and tool_payload are its locals, the session service and    *)
(* os.environ are shared, and the coroutine gives way at every await:      *)
(* create_session, and each `async for` step of the event stream.  The     *)
(* runner appends every event it emits to the session of the run.  The     *)
(* data store works throughout.                                            *)
(*   tasks[i] = [req, pc, session, pos, consumed, latest_text,             *)
(*               tool_payload, outcome]                                    *)
(***************************************************************************)
Callers == {"c1", "c2"}

\* each caller asks with a limit of its own: none, or the default
LimitOf(c) == IF c = "c1" THEN None ELSE Some(DefaultLimit)

\* the runs of the agent itself: it answers in text or calls the bound tool
AgentStepInputs == {step \in StepInputs : step.fr.kind # "raw"}

AgentStreamInputs == UNION {[1..n -> AgentStepInputs] : n \in 0..MaxEvents}

\* the users table the service runs on; no call of this part writes to it
AgentStore == <<NewUser(1, "a@x.com", "alice", 1)>>

\* what the bound tool gives for the agent's calls on that table
ToolOutcomes ==
    [kwargs \in {step.fr.kwargs : step \in {x \in AgentStepInputs : x.fr.kind = "tool"}} |->
        query_users_tool(kwargs, AgentStore, "none")]

Started(c) == \E i \in 1..Len(tasks) : tasks[i].req.caller = c

\* A session service that hands out the session of the user when there is one
create_session_per_user(reg) ==
    IF reg = <<>>
    THEN [id |-> 1, sessions |-> <<[id |-> 1, user_id |-> "api_user", events |-> <<>>]>>]
    ELSE [id |-> 1, sessions |-> reg]

\* lines 46-49: InMemorySessionService.create_session without a session_id makes a new
\* session under an id of its own
create_session(reg) ==
    [id |-> Len(reg) + 1,
     sessions |-> Append(reg, [id |-> Len(reg) + 1, user_id |-> "api_user",
                               events |-> <<>>])]

\* A loop that stops at the first function response
stream_ended_or_payload(task) ==
    task.pos = Len(task.req.steps) \/ task.tool_payload # None

\* line 62: the `async for` has no more events to give
stream_ended(task) == task.pos = Len(task.req.steps)

\* the event the runner emits for a step that did not raise
EventOf(step, out) ==
    [text |-> step.text,
     fr |-> IF step.fr.kind = "tool" THEN Some(out.value)
            ELSE IF step.fr.kind = "raw" THEN Some(step.fr.payload)
            ELSE None]

\* lines 31-44: query_users is entered and checks the credential
BeginQuery ==
    /\ \E c \in Callers, steps \in AgentStreamInputs :
          /\ ~Started(c)
          /\ \E key \in {_ensure_google_api_key(settings, environ)} :
                LET task == [req |-> [op |-> "query_users", caller |-> c, limit |-> LimitOf(c),
                                      steps |-> steps],
                             pc |-> IF key = None THEN "done" ELSE "create_session",
                             session |-> None, pos |-> 0, consumed |-> <<>>,
                             latest_text |-> "", tool_payload |-> None,
                             outcome |-> IF key = None
                                         THEN Some([kind |-> "raise", exc |-> "RuntimeError"])
                                         ELSE None]
                IN  /\ tasks' = Append(tasks, task)
                    /\ environ' = IF key = None THEN environ
                                  ELSE [environ EXCEPT !.GOOGLE_API_KEY = key]
    /\ UNCHANGED <<store, clock, settings, phase, call, resp, ops, sessions>>

\* lines 46-49
CreateSession(i) ==
    /\ tasks[i].req.op = "query_users" /\ tasks[i].pc = "create_session"
    /\ \E made \in {create_session(sessions)} :
          /\ sessions' = made.sessions
          /\ tasks' = [tasks EXCEPT ![i].session = Some(made.id), ![i].pc = "run_async"]
    /\ UNCHANGED <<store, clock, settings, environ, phase, call, resp, ops>>

\* lines 56-62: what the runner gives for the next step of the run: the event, or the
\* exception of the tool it called
Emitted(step, out) ==
    IF out.kind = "raise"
    THEN [kind |-> "raise", exc |-> out.exc]
    ELSE [kind |-> "event", event |-> EventOf(step, out)]

Emit(step) ==
    Emitted(step, IF step.fr.kind = "tool" THEN ToolOutcomes[step.fr.kwargs]
                  ELSE Return(EmptyDict, <<>>, AgentStore))

\* lines 63-70: the loop body
TakeEvent(task, event) ==
    [task EXCEPT !.pos = @ + 1,
                 !.consumed = Append(@, event),
                 !.latest_text = IF event.text # "" THEN event.text ELSE @,
                 !.tool_payload = IF event.fr # None THEN event.fr ELSE @]

\* lines 62-70: the runner emits the next event of the run into the call's session and
\* the loop body takes it
NextEvent(i) ==
    /\ tasks[i].req.op = "query_users" /\ tasks[i].pc = "run_async"
    /\ ~stream_ended(tasks[i])
    /\ \E e \in {Emit(tasks[i].req.steps[tasks[i].pos + 1])} :
          /\ tasks' = [tasks EXCEPT ![i] =
                         IF e.kind = "raise"
                         THEN [@ EXCEPT !.pc = "done",
                                        !.outcome = Some([kind |-> "raise", exc |-> e.exc])]
                         ELSE TakeEvent(@, e.event)]
          /\ sessions' = IF e.kind = "raise" THEN sessions
                         ELSE [sessions EXCEPT ![Val(tasks[i].session)].events =
                                                  Append(@, e.event)]
    /\ UNCHANGED <<store, clock, settings, environ, phase, call, resp, ops>>

\* what the loop can hold when the stream of an agent run ends
AgentAccs ==
    [latest_text : {""} \cup {step.text : step \in AgentStepInputs},
     tool_payload : {None} \cup {Some(ToolOutcomes[k].value) :
                                   k \in {x \in DOMAIN ToolOutcomes :
                                            ToolOutcomes[x].kind = "return"}}]

\* lines 72-85 on each of them, for each limit a caller asks with
ResolvedTable ==
    {[acc |-> acc, limit |-> limit, out |-> Resolve(acc, limit, <<>>, AgentStore)] :
        acc \in AgentAccs, limit \in {LimitOf(c) : c \in Callers}}

Resolved(acc, limit) ==
    (CHOOSE r \in ResolvedTable : r.acc = acc /\ r.limit = limit).out

\* lines 72-85: the stream has ended; the call returns or raises
EndOfStream(i) ==
    /\ tasks[i].req.op = "query_users" /\ tasks[i].pc = "run_async"
    /\ stream_ended(tasks[i])
    /\ \E out \in {Resolved([latest_text |-> tasks[i].latest_text,
                              tool_payload |-> tasks[i].tool_payload],
                             tasks[i].req.limit)} :
          tasks' = [tasks EXCEPT
                      ![i].pc = "done",
                      ![i].outcome = Some(IF out.kind = "return"
                                          THEN [kind |-> "return", value |-> out.value]
                                          ELSE [kind |-> "raise", exc |-> out.exc])]
    /\ UNCHANGED <<store, clock, settings, environ, phase, call, resp, ops, sessions>>

\* the service starts with an empty session registry, on a store with one user
InitAgent ==
    /\ store = AgentStore
    /\ clock = Len(AgentStore)
    /\ \E d \in Deployments : settings = d.settings /\ environ = d.environ
    /\ phase = "idle"
    /\ call = NoCall
    /\ resp = NoResp
    /\ ops = <<>>
    /\ tasks = <<>>
    /\ sessions = <<>>

NextAgent ==
    \/ BeginQuery
    \/ \E i \in 1..Len(tasks) : CreateSession(i)
    \/ \E i \in 1..Len(tasks) : NextEvent(i)
    \/ \E i \in 1..Len(tasks) : EndOfStream(i)

SpecAgent == InitAgent /\ [][NextAgent]_vars

\* the step of the call at position i: the event loop runs every coroutine that can run
StepOf(i) ==
    /\ i \in 1..Len(tasks)
    /\ CreateSession(i) \/ NextEvent(i) \/ EndOfStream(i)

SpecAgentFair ==
    SpecAgent /\ \A i \in 1..Cardinality(Callers) : WF_vars(StepOf(i))

(***************************************************************************)
(* Properties.                                                             *)
(***************************************************************************)
ToolReturned == phase = "done" /\ call.op = "query_users_tool"

ServiceReturned == phase = "done" /\ call.op = "query_users"

EndpointAnswered == phase = "done" /\ call.op = "endpoint" /\ "forwarded" \in DOMAIN call

Count(s, x) == Cardinality({i \in 1..Len(s) : s[i] = x})

Has(s, x) == \E i \in 1..Len(s) : s[i] = x

\* C1: every user record in `data` of a result returned by query_users_tool or by
\* query_users, on either provider path and also when the result is an agent tool
\* payload or a model-produced result that is passed through, has exactly the
\* UserPublic fields and so never a password.
C1_DataIsUserPublic ==
    ((ToolReturned \/ ServiceReturned) /\ resp.kind = "return")
        => \A i \in 1..Len(resp.value.data) :
              DOMAIN resp.value.data[i] = UserPublicFields

\* a payload with a password in its record went through the agent path and came back
C1_PassedThrough ==
    /\ ServiceReturned
    /\ call.provider = "google"
    /\ \E i \in 1..Len(call.world) :
          /\ call.world[i].fr.kind = "raw"
          /\ "data" \in DOMAIN call.world[i].fr.payload
          /\ "password" \in DOMAIN call.world[i].fr.payload.data[1]
    /\ resp.kind = "return"
    /\ Len(resp.value.data) = 1
    /\ resp.value.data[1].username = FabricatedUser.username

\* C2: a call of query_users_tool or of query_users, whatever its input and provider,
\* leaves the stored user records as they were, and every operation it performs on
\* the user-data collaborator is one of the five reads.
C2_QueriesOnlyRead ==
    [][(phase' = "done" /\ call'.op \in {"query_users_tool", "query_users"})
          => /\ store' = store
             /\ \A i \in 1..Len(ops') :
                   (i > 1 /\ i < Len(ops') /\ ops'[i - 1] = "open_session")
                      => ops'[i] \in ReadOps]_vars

\* a query over a table that holds users reached the collaborator
C2_ReadHappened ==
    /\ ServiceReturned
    /\ store # <<>>
    /\ \E i \in 1..Len(ops) : ops[i] \in ReadOps
    /\ resp.kind = "return"
    /\ Len(resp.value.data) > 0

\* The primitives that form no valid LookupRequest: an unknown lookup_type, the
\* identifier of the lookup missing or blank, a field out of its range, a malformed
\* email, or skip/limit given with a lookup that is not a listing.
NotALookupRequest(kw) ==
    LET given(k) == Arg(kw, k, None) # None
        lt == Arg(kw, "lookup_type", None)
    IN  \/ lt = None
        \/ Val(lt) \notin {"id", "email", "username", "list"}
        \/ Val(lt) = "id" /\ ~given("user_id")
        \/ Val(lt) = "email" /\ ~given("email")
        \/ Val(lt) = "username" /\ (~given("username") \/ Val(kw.username) \in {"", " "})
        \/ given("user_id") /\ Val(kw.user_id) < 1
        \/ given("skip") /\ Val(kw.skip) < 0
        \/ given("limit") /\ (Val(kw.limit) < 1 \/ Val(kw.limit) > 100)
        \/ given("email") /\ ~EmailStrOk(Val(kw.email))
        \/ /\ Val(lt) # "list"
           /\ \/ given("skip") /\ Val(kw.skip) # 0
              \/ given("limit") /\ Val(kw.limit) # 20

C4_ToolNeverRaises ==
    ToolReturned
        => /\ resp.kind = "return"
           /\ (call.fault # "none")
                 => /\ resp.value.intent = "clarification_needed"
                    /\ resp.value.summary = "I could not complete that query."
                    /\ resp.value.error # None

\* C5: query_users returns a result or raises the missing-credential error; nothing
\* else leaves it, whatever the provider or the runtime does (stated for the calls in
\* which the data store works).
C5_OnlyCredentialErrorEscapes ==
    (ServiceReturned /\ call.fault = "none" /\ resp.kind = "raise")
        => resp.exc = "RuntimeError"

\* A credential is absent when it is not set, or set to the empty string
Absent(o) == o = None \/ Val(o) = ""

\* The credential of the provider is missing: absent from settings and from the
\* environment, or (google) the one found is the placeholder
CredentialMissing(provider) ==
    IF provider = "openrouter"
    THEN Absent(settings.openrouter_api_key) /\ Absent(environ.OPENROUTER_API_KEY)
    ELSE \/ Absent(settings.google_api_key) /\ Absent(environ.GOOGLE_API_KEY)
         \/ settings.google_api_key = Some("your-google-api-key-here")
         \/ /\ Absent(settings.google_api_key)
            /\ environ.GOOGLE_API_KEY = Some("your-google-api-key-here")

OutboundOps == {"create_session", "run_async", "http_post", "query_users_tool", "open_session"}

\* C6: when the credential of the selected provider is missing, query_users raises
\* RuntimeError and the call creates no session, starts no agent run, sends no HTTP
\* request and does not invoke the Query Tool.  (A call leaves the credential as it
\* found it unless it succeeds in finding one, so the state after the call tells
\* whether it was missing.)
C6_MissingCredentialRaisesFirst ==
    (ServiceReturned /\ CredentialMissing(call.provider))
        => /\ resp.kind = "raise"
           /\ resp.exc = "RuntimeError"
           /\ \A i \in 1..Len(ops) : ops[i] \notin OutboundOps

\* the google key is the placeholder, the environment holds a real one, and the call raised
C6_PlaceholderRefused ==
    /\ ServiceReturned
    /\ call.provider = "google"
    /\ settings.google_api_key = Some("your-google-api-key-here")
    /\ environ.GOOGLE_API_KEY = Some("g-key")
    /\ Len(call.world) > 0
    /\ resp.kind = "raise"
    /\ resp.exc = "RuntimeError"
    /\ ops = <<"_query_users_google">>

\* C7: a query_users call runs exactly one strategy, the one its provider flag
\* selects; the other one is never entered, also when the selected one fails; and no
\* outbound operation (session creation, agent run, HTTP POST, the Direct-Prompt
\* invocation of the Query Tool) happens more than once in the call.
C7_OneStrategyNoRetry ==
    ServiceReturned
        => /\ Count(ops, "_query_users_openrouter")
                 = (IF call.provider = "openrouter" THEN 1 ELSE 0)
           /\ Count(ops, "_query_users_google")
                 = (IF call.provider = "openrouter" THEN 0 ELSE 1)
           /\ \A x \in {"create_session", "run_async", "http_post", "query_users_tool"} :
                 Count(ops, x) <= 1
           /\ (call.provider = "openrouter")
                 => ~Has(ops, "create_session") /\ ~Has(ops, "run_async")
           /\ (call.provider # "openrouter")
                 => ~Has(ops, "http_post") /\ ~Has(ops, "query_users_tool")

\* the OpenRouter strategy failed while the google credential was there to be used
C7_FailedWithoutFallback ==
    /\ ServiceReturned
    /\ call.provider = "openrouter"
    /\ settings.google_api_key = Some("g-key")
    /\ resp.kind = "raise"
    /\ resp.exc = "RequestException"
    /\ ops = <<"_query_users_openrouter", "http_post">>

\* min(payload.limit if given else the configured default, the configured ceiling)
ExpectedLimit(payload) ==
    LET wanted == IF payload.limit = None THEN users_nl_default_limit ELSE Val(payload.limit)
    IN  IF wanted <= users_nl_max_limit THEN wanted ELSE users_nl_max_limit

\* C8: for every request the endpoint accepts, the limit forwarded to query_users is
\* min(payload.limit or the configured default, the configured ceiling); a 200
\* response has filters.limit equal to it and filters.provider equal to the requested
\* provider, and keeps every other filter key the strategy returned.
C8_EndpointLimitAndFilters ==
    EndpointAnswered
        => /\ call.forwarded = ExpectedLimit(call.payload)
           /\ (resp.status = 200)
                 => LET strategy == query_users(settings, environ,
                                                Some(ExpectedLimit(call.payload)),
                                                call.payload.provider, call.world, store,
                                                call.fault)
                        filters == resp.value.filters
                    IN  /\ filters.limit = ExpectedLimit(call.payload)
                        /\ filters.provider = call.payload.provider
                        /\ \A k \in DOMAIN strategy.value.filters \ {"limit", "provider"} :
                              k \in DOMAIN filters /\ filters[k] = strategy.value.filters[k]

\* a request above the ceiling was answered 200 with the capped limit beside the
\* strategy's own filter keys
C8_CappedRequest ==
    /\ EndpointAnswered
    /\ call.payload.limit = Some(users_nl_max_limit + 1)
    /\ call.forwarded = users_nl_max_limit
    /\ resp.status = 200
    /\ resp.value.filters.limit = users_nl_max_limit
    /\ "skip" \in DOMAIN resp.value.filters
    /\ Len(resp.value.data) > 0

\* The identifier fields of a request, as far as they are given, are well-formed
IdentifiersWellFormed(kw) ==
    /\ kw.user_id = None \/ Val(kw.user_id) >= 1
    /\ kw.email = None \/ EmailStrOk(Val(kw.email))

\* A valid list request: skip >= 0 and 1 <= limit <= 100 where given
ValidListRequest(kw) ==
    /\ kw.lookup_type = Some("list")
    /\ kw.skip = None \/ Val(kw.skip) >= 0
    /\ kw.limit = None \/ (Val(kw.limit) >= 1 /\ Val(kw.limit) <= 100)
    /\ IdentifiersWellFormed(kw)

\* C9: for a valid list request against a working collaborator, the tool calls
\* get_active_users(skip, limit) if active_only and get_all_users(skip, limit)
\* otherwise, and returns intent list_active_users or list_users, the rows
\* [skip, skip+limit) of the (active) users, filters {active_only, skip, limit} as
\* requested, error null and count = len(data) <= limit.
C9_ListRequest ==
    (ToolReturned /\ ValidListRequest(call.kwargs) /\ call.fault = "none")
        => LET kw == call.kwargs
               active == kw.active_only = Some(TRUE)
               skip == IF kw.skip = None THEN 0 ELSE Val(kw.skip)
               limit == IF kw.limit = None THEN 20 ELSE Val(kw.limit)
               rows == IF active THEN SelectSeq(store, LAMBDA r : r.is_active) ELSE store
               data == resp.value.data
           IN  /\ resp.kind = "return"
               /\ ops = <<"open_session",
                          IF active THEN "get_active_users" ELSE "get_all_users",
                          "close_session">>
               /\ resp.value.intent = (IF active THEN "list_active_users" ELSE "list_users")
               /\ resp.value.filters = [active_only |-> active, skip |-> skip, limit |-> limit]
               /\ resp.value.error = None
               /\ resp.value.count = Len(data)
               /\ Len(data) <= limit
               /\ \A i \in 1..Len(data) :
                     skip + i <= Len(rows) /\ data[i].id = rows[skip + i].id
               /\ \A j \in 1..Len(rows) :
                     (j > skip /\ j <= skip + limit) => j - skip <= Len(data)

\* the second page of size one, out of two stored users
C9_SecondPage ==
    /\ ToolReturned
    /\ call.kwargs.lookup_type = Some("list")
    /\ call.kwargs.active_only = Some(FALSE)
    /\ call.kwargs.skip = Some(1)
    /\ call.kwargs.limit = Some(1)
    /\ call.fault = "none"
    /\ Len(store) = 2
    /\ resp.kind = "return"
    /\ resp.value.count = 1
    /\ resp.value.data[1].id = 2

\* C10: skip or limit with a lookup that is not a listing is a validation error:
\* with lookup_type id, email or username and skip # 0 or limit # 20 the result is
\* clarification_needed, also when the identifier is valid; a list request with
\* in-range skip and limit passes validation and lists; and active_only, skip and
\* limit given as None count as not supplied, so a lookup by identifier with them
\* passes validation and, its user being there, finds it.
C10_PagingOnlyForList ==
    ToolReturned
        => LET kw == call.kwargs
               lt == Val(kw.lookup_type)
               paged == \/ kw.skip # None /\ Val(kw.skip) # 0
                        \/ kw.limit # None /\ Val(kw.limit) # 20
               identified ==
                   \/ lt = "id" /\ kw.user_id # None /\ Val(kw.user_id) >= 1
                         /\ (kw.email = None \/ EmailStrOk(Val(kw.email)))
                   \/ lt = "email" /\ kw.email # None /\ EmailStrOk(Val(kw.email))
                         /\ (kw.user_id = None \/ Val(kw.user_id) >= 1)
                   \/ lt = "username" /\ kw.username # None
                         /\ Val(kw.username) \notin {"", " "}
                         /\ IdentifiersWellFormed(kw)
               there ==
                   \E i \in 1..Len(store) :
                      \/ lt = "id" /\ store[i].id = Val(kw.user_id)
                      \/ lt = "email" /\ store[i].email = EmailNormalForm[Val(kw.email)]
                      \/ lt = "username" /\ store[i].username = Val(kw.username)
           IN  /\ (lt \in {"id", "email", "username"} /\ paged)
                     => /\ resp.kind = "return"
                        /\ resp.value.intent = "clarification_needed"
                        /\ ops = <<>>
               /\ (ValidListRequest(kw) /\ call.fault = "none")
                     => /\ resp.kind = "return"
                        /\ resp.value.intent \in {"list_users", "list_active_users"}
                        /\ resp.value.error = None
               /\ (identified /\ ~paged)
                     => /\ ops # <<>>
                        /\ (call.fault = "none" /\ there)
                              => /\ resp.kind = "return"
                                 /\ resp.value.intent
                                       = (IF lt = "id" THEN "get_user_by_id"
                                          ELSE IF lt = "email" THEN "get_user_by_email"
                                          ELSE "get_user_by_username")
                                 /\ resp.value.count = 1
                                 /\ resp.value.error = None

\* a lookup by email with active_only, skip and limit all None found its user
C10_NoneMeansNotSupplied ==
    /\ ToolReturned
    /\ call.kwargs.lookup_type = Some("email")
    /\ call.kwargs.email = Some("a@x.com")
    /\ call.kwargs.active_only = None
    /\ call.kwargs.skip = None
    /\ call.kwargs.limit = None
    /\ resp.kind = "return"
    /\ resp.value.intent = "get_user_by_email"
    /\ resp.value.count = 1

\* the request went past validation: the call opened a data-store session
Validated == ops # <<>>

\* skip and limit are absent or at their defaults
DefaultPaging(kw) ==
    /\ kw.skip = None \/ Val(kw.skip) = 0
    /\ kw.limit = None \/ Val(kw.limit) = 20

\* the identifier field of lookup type lt is present and valid
OwnIdentifier(kw, lt) ==
    \/ lt = "id" /\ kw.user_id # None /\ Val(kw.user_id) >= 1
    \/ lt = "email" /\ kw.email # None /\ EmailStrOk(Val(kw.email))
    \/ lt = "username" /\ kw.username # None /\ Val(kw.username) \notin {"", " "}

\* an identifier field that belongs to another lookup type is supplied
OtherIdentifier(kw, lt) ==
    \/ lt # "id" /\ kw.user_id # None
    \/ lt # "email" /\ kw.email # None
    \/ lt # "username" /\ kw.username # None

\* C11: for lookup_type id, email or username with default skip/limit, the request
\* validates if and only if the identifier of that lookup type is present and valid
\* and no identifier field of another lookup type is supplied.
C11_WrongIdentifierRefused ==
    (/\ ToolReturned
     /\ Val(call.kwargs.lookup_type) \in {"id", "email", "username"}
     /\ DefaultPaging(call.kwargs))
        => (Validated <=> /\ OwnIdentifier(call.kwargs, Val(call.kwargs.lookup_type))
                          /\ ~OtherIdentifier(call.kwargs, Val(call.kwargs.lookup_type)))

\* the record of a stored user as a result shows it: the UserPublic fields, dates as text
Sanitized(row) ==
    [f \in {"id", "email", "username", "first_name", "last_name", "is_active",
            "created_at", "updated_at"} |->
        IF f \in {"created_at", "updated_at"} THEN isoformat(row[f]) ELSE row[f]]

\* the stored users a predicate selects
Stored(P(_)) == {i \in 1..Len(store) : P(store[i])}

\* C12: a valid username lookup that matches no stored user returns intent
\* get_user_by_username, summary "No user found for that username.", filters
\* {username: the requested one}, empty data, count 0 and error null; one that
\* matches returns the same intent and filters with count 1 and the sanitized record
\* of that user.
C12_UsernameLookup ==
    (/\ ToolReturned
     /\ call.kwargs.lookup_type = Some("username")
     /\ OwnIdentifier(call.kwargs, "username")
     /\ IdentifiersWellFormed(call.kwargs)
     /\ DefaultPaging(call.kwargs)
     /\ call.fault = "none")
        => LET name == Val(call.kwargs.username)
               hits == Stored(LAMBDA r : r.username = name)
           IN  /\ resp.kind = "return"
               /\ resp.value.intent = "get_user_by_username"
               /\ resp.value.filters = [username |-> name]
               /\ resp.value.error = None
               /\ (hits = {})
                     => /\ resp.value.summary = "No user found for that username."
                        /\ resp.value.data = <<>>
                        /\ resp.value.count = 0
               /\ (hits # {})
                     => /\ resp.value.count = 1
                        /\ \E i \in hits : resp.value.data = <<Sanitized(store[i])>>

\* nobody is called ghost, though the table holds users
C12_NoSuchUsername ==
    /\ ToolReturned
    /\ call.kwargs.lookup_type = Some("username")
    /\ call.kwargs.username = Some("ghost")
    /\ store # <<>>
    /\ resp.kind = "return"
    /\ resp.value.intent = "get_user_by_username"
    /\ resp.value.count = 0
    /\ resp.value.error = None

\* C13: a valid id or email lookup whose target does not exist returns
\* clarification_needed with a non-null error, empty data and count 0, never the
\* lookup's own intent with empty data; when the target exists it returns intent
\* get_user_by_id or get_user_by_email with count 1, that user's record, filters
\* {user_id} or {email} and error null.
C13_IdAndEmailLookup ==
    (/\ ToolReturned
     /\ Val(call.kwargs.lookup_type) \in {"id", "email"}
     /\ OwnIdentifier(call.kwargs, Val(call.kwargs.lookup_type))
     /\ IdentifiersWellFormed(call.kwargs)
     /\ DefaultPaging(call.kwargs)
     /\ call.fault = "none")
        => LET by_id == call.kwargs.lookup_type = Some("id")
               hits == IF by_id
                       THEN Stored(LAMBDA r : r.id = Val(call.kwargs.user_id))
                       ELSE Stored(LAMBDA r : r.email = EmailNormalForm[Val(call.kwargs.email)])
           IN  /\ resp.kind = "return"
               /\ (hits = {})
                     => /\ resp.value.intent = "clarification_needed"
                        /\ resp.value.error # None
                        /\ resp.value.data = <<>>
                        /\ resp.value.count = 0
               /\ (hits # {})
                     => /\ resp.value.intent
                              = (IF by_id THEN "get_user_by_id" ELSE "get_user_by_email")
                        /\ resp.value.count = 1
                        /\ \E i \in hits : resp.value.data = <<Sanitized(store[i])>>
                        /\ resp.value.filters
                              = (IF by_id THEN [user_id |-> Val(call.kwargs.user_id)]
                                 ELSE [email |-> EmailNormalForm[Val(call.kwargs.email)]])
                        /\ resp.value.error = None
               /\ (resp.value.intent \in {"get_user_by_id", "get_user_by_email"})
                     => resp.value.data # <<>>

\* user 2 is asked for while only user 1 is stored
C13_NoSuchId ==
    /\ ToolReturned
    /\ call.kwargs.lookup_type = Some("id")
    /\ call.kwargs.user_id = Some(2)
    /\ Len(store) = 1
    /\ call.fault = "none"
    /\ resp.kind = "return"
    /\ resp.value.intent = "clarification_needed"
    /\ resp.value.error # None
    /\ ops = <<"open_session", "get_user_by_id", "close_session">>

\* C14: every result query_users returns, on any path, has count = len(data).
C14_CountIsLenData ==
    (ServiceReturned /\ resp.kind = "return")
        => resp.value.count = Len(resp.value.data)

\* C15: a result of query_users_tool or of query_users has a non-null error only
\* when its intent is clarification_needed or out_of_scope.
C15_ErrorOnlyWithFailureIntent ==
    ((ToolReturned \/ ServiceReturned) /\ resp.kind = "return" /\ resp.value.error # None)
        => resp.value.intent \in {"clarification_needed", "out_of_scope"}

\* the filters the strategy itself reported in the call the endpoint made
StrategyFilters ==
    query_users(settings, environ, Some(call.forwarded), call.payload.provider, call.world,
                store, call.fault).value.filters

\* C16: in the final response of a query that performed a list read, filters.limit,
\* filters.skip and filters.active_only are the values passed to that read (the ones
\* the Query Tool reports for it), on both provider paths.
C16_FiltersAreTheAppliedOnes ==
    (/\ EndpointAnswered
     /\ resp.status = 200
     /\ Has(ops, "get_all_users") \/ Has(ops, "get_active_users")
     /\ {"limit", "skip", "active_only"} \subseteq DOMAIN StrategyFilters)
        => \A k \in {"limit", "skip", "active_only"} :
              resp.value.filters[k] = StrategyFilters[k]

\* C17: the number of user records in the final response never exceeds the effective
\* limit min(requested or default limit, ceiling), whatever limit the model's plan or
\* the agent's tool call names.
C17_DataWithinEffectiveLimit ==
    (EndpointAnswered /\ resp.status = 200)
        => Len(resp.value.data) <= ExpectedLimit(call.payload)

\* the Direct-Prompt provider answered, and its output parsed to an object with an
\* `intent` key
IntentAnswer ==
    /\ ServiceReturned
    /\ call.provider = "openrouter"
    /\ ~CredentialMissing("openrouter")
    /\ call.world.kind = "response"
    /\ call.world.status < 400
    /\ call.world.json
    /\ call.world.content.form \notin {"missing", "null"}
    /\ _parse_json_content(call.world.content) # None
    /\ "intent" \in DOMAIN call.world.content.value

\* the object conforms to the closed result schema
ConformsToResultSchema(obj) ==
    /\ DOMAIN obj \subseteq {"intent", "summary", "data", "filters", "count", "error"}
    /\ {"intent", "summary"} \subseteq DOMAIN obj
    /\ obj.intent \in {"get_user_by_id", "get_user_by_email", "get_user_by_username",
                       "list_users", "list_active_users", "clarification_needed",
                       "out_of_scope"}
    /\ ("data" \in DOMAIN obj)
          => \A i \in 1..Len(obj.data) :
                /\ UserPublicFields \subseteq DOMAIN obj.data[i]
                /\ EmailStrOk(obj.data[i].email)
                /\ IsIso(obj.data[i].created_at)
                /\ IsIso(obj.data[i].updated_at)

\* what holds of every answer with an intent key: no tool, no data store, and an
\* invalid object replaced by the clarification result
IntentAnswerHandled ==
    /\ resp.kind = "return"
    /\ ops = <<"_query_users_openrouter", "http_post">>
    /\ ~ConformsToResultSchema(call.world.content.value)
          => /\ resp.value.intent = "clarification_needed"
             /\ resp.value.summary = "Invalid structured response from OpenRouter."
             /\ resp.value.error # None
             /\ resp.value.data = <<>>
             /\ resp.value.count = 0

C19_RoundTrip ==
    (/\ ToolReturned
     /\ Val(call.kwargs.lookup_type) \in {"id", "email", "username"}
     /\ resp.kind = "return")
        => /\ UsersQueryResult_validate(resp.value) # None
           /\ UsersQueryResult_dump(Val(UsersQueryResult_validate(resp.value))) = resp.value
           /\ UsersQueryResult_dump(Val(UsersQueryResult_validate(
                  UsersQueryResult_dump(Val(UsersQueryResult_validate(resp.value))))))
                 = UsersQueryResult_dump(Val(UsersQueryResult_validate(resp.value)))

\* a user found by email, its record with dates in the result
C19_FoundUser ==
    /\ ToolReturned
    /\ call.kwargs.lookup_type = Some("email")
    /\ resp.kind = "return"
    /\ resp.value.intent = "get_user_by_email"
    /\ resp.value.count = 1
    /\ resp.value.data[1].created_at = "2024-01-01T00:00:02"

\* C20: whatever the interleaving of concurrent create_user and update_user calls, no
\* two stored users share an email or a username, and a call that would have given a
\* user the email or username of another fails with UserAlreadyExistsException naming
\* the field: no call ends with another error for it.
C20_UniqueAndRefusedByName ==
    /\ \A j, k \in 1..Len(store) :
          (j # k) => (store[j].email # store[k].email
                      /\ store[j].username # store[k].username)
    /\ \A i \in 1..Len(tasks) :
          (tasks[i].outcome # None /\ Val(tasks[i].outcome).kind = "raise")
             => \/ /\ Val(tasks[i].outcome).exc = "UserAlreadyExistsException"
                   /\ Val(tasks[i].outcome).field \in {"email", "username"}
                \/ /\ Val(tasks[i].outcome).exc = "UserNotFoundException"
                   /\ tasks[i].req.op = "update_user"

(***************************************************************************)
(* The Agent-Runtime strategy, seen from outside: the steps of the run     *)
(* (call.world) against the result of the call.                            *)
(***************************************************************************)
AgentRun == call.op = "query_users" /\ call.provider = "google"

AgentRunReturned == AgentRun /\ resp.kind = "return"

\* the positions of the events that carried a dict response, and of those with text
ResponseEvents == {i \in 1..Len(call.world) : call.world[i].fr.kind # "none"}

TextEvents == {i \in 1..Len(call.world) : call.world[i].text # ""}

Highest(S) == CHOOSE i \in S : \A j \in S : j <= i

\* the dict the event at position i carried
ResponseOf(i) ==
    IF call.world[i].fr.kind = "raw"
    THEN call.world[i].fr.payload
    ELSE query_users_tool(call.world[i].fr.kwargs, store, call.fault).value

LastText == IF TextEvents = {} THEN "" ELSE call.world[Highest(TextEvents)].text

\* C21: once the stream has ended, the result of the Agent-Runtime strategy is the
\* validated payload of the last event that carried a dict tool response, wherever the
\* text events stand, with its summary replaced by the latest text only when it is
\* empty; without such an event it is the classification of the last text; without
\* text either it is the canned clarification result.
C21_ResolutionOrder ==
    AgentRunReturned =>
       IF ResponseEvents # {}
       THEN LET result == UsersQueryResult_validate(ResponseOf(Highest(ResponseEvents)))
            IN  /\ result # None
                /\ resp.value = IF Val(result).summary = "" /\ LastText # ""
                                THEN [Val(result) EXCEPT !.summary = LastText]
                                ELSE Val(result)
       ELSE IF TextEvents # {}
       THEN resp.value = _result_from_text(LastText, call.limit)
       ELSE resp.value = ErrorResult("clarification_needed",
                                     "I could not produce a query result.",
                                     Some("No tool output received from agent run."))

\* C21 witness: a tool response followed by a text event; the tool response is returned
C21_TextAfterToolResponse ==
    /\ AgentRunReturned
    /\ Len(call.world) = 2
    /\ call.world[1].fr.kind = "tool"
    /\ call.world[2].text # ""
    /\ resp.value.intent = "list_users"
    /\ resp.value.summary # call.world[2].text

(***************************************************************************)
(* The Agent-Runtime strategy, step by step.                               *)
(***************************************************************************)
QueryTasks == {i \in 1..Len(tasks) : tasks[i].req.op = "query_users"}

Finished(c) == \E i \in 1..Len(tasks) : tasks[i].req.caller = c /\ tasks[i].pc = "done"

TaskReturned(i) == tasks[i].outcome # None /\ Val(tasks[i].outcome).kind = "return"

\* the events taken so far are the first events of the run, one for one and in order
TakenInOrder(i) ==
    /\ Len(tasks[i].consumed) = tasks[i].pos
    /\ tasks[i].pos <= Len(tasks[i].req.steps)
    /\ \A k \in 1..tasks[i].pos :
          /\ tasks[i].consumed[k].text = tasks[i].req.steps[k].text
          /\ (tasks[i].consumed[k].fr # None) <=> (tasks[i].req.steps[k].fr.kind # "none")

\* a tool result carried by the final event is the result of the call
FinalEventHonoured(i) ==
    (tasks[i].req.steps # <<>> /\ Last(tasks[i].req.steps).fr.kind = "tool")
       => Val(tasks[i].outcome).value
             = Val(UsersQueryResult_validate(Val(Last(tasks[i].consumed).fr)))

Drained ==
    \A i \in QueryTasks :
       /\ TakenInOrder(i)
       /\ TaskReturned(i) => /\ tasks[i].pos = Len(tasks[i].req.steps)
                             /\ FinalEventHonoured(i)

\* C22: the Agent-Runtime strategy takes the events of a finite stream one by one in
\* stream order, returns only when none is left (a tool result in the final event is
\* the result), and every call that was started ends.
C22_DrainsThenReturns ==
    /\ []Drained
    /\ \A c \in Callers : Started(c) ~> Finished(c)

\* C22 witness: a call whose stream ends with the tool result has returned it
C22_ToolResultInFinalEvent ==
    \E i \in QueryTasks :
       /\ TaskReturned(i)
       /\ Len(tasks[i].req.steps) = MaxEvents
       /\ tasks[i].req.steps[1].fr.kind = "none"
       /\ Last(tasks[i].req.steps).fr.kind = "tool"
       /\ Val(tasks[i].outcome).value.intent = "list_users"
       /\ Val(tasks[i].outcome).value.count = 1

\* what the call at position i gives when it runs alone
Alone(i) ==
    query_users(settings, environ, tasks[i].req.limit, "google", tasks[i].req.steps,
                store, "none")

SameOutcome(i, alone) ==
    /\ Val(tasks[i].outcome).kind = alone.kind
    /\ alone.kind = "return" => Val(tasks[i].outcome).value = alone.value
    /\ alone.kind = "raise" => Val(tasks[i].outcome).exc = alone.exc

\* C28: under every interleaving of concurrent Agent-Runtime calls on the shared
\* service, every call that got past the credential check has made exactly one session,
\* no two calls have the same session, a session holds the events of its own call only,
\* and the outcome of a call is the one it has when it runs alone.
C28_NoCrossTalk ==
    /\ Len(sessions) = Cardinality({i \in QueryTasks : tasks[i].session # None})
    /\ \A i \in QueryTasks :
          /\ tasks[i].session # None =>
                /\ Val(tasks[i].session) \in 1..Len(sessions)
                /\ sessions[Val(tasks[i].session)].events = tasks[i].consumed
                /\ \A j \in QueryTasks :
                      (j # i) => tasks[j].session # tasks[i].session
          /\ tasks[i].pc = "done" => SameOutcome(i, Alone(i))

\* C28 witness: two calls ran interleaved, the later one on the earlier session, and
\* came back with different results
C28_TwoInterleavedCalls ==
    /\ Len(tasks) = 2
    /\ TaskReturned(1) /\ TaskReturned(2)
    /\ tasks[1].session = Some(2) /\ tasks[2].session = Some(1)
    /\ Val(tasks[1].outcome).value.intent = "list_users"
    /\ Val(tasks[2].outcome).value.intent = "out_of_scope"
    /\ Len(sessions[1].events) = MaxEvents
    /\ Len(sessions[2].events) = MaxEvents

(***************************************************************************)
(* The text classifier.                                                    *)
(***************************************************************************)
TextClassified == call.op = "_result_from_text"

\* the text says "out of scope" in some case or spelling, judged on its fragments
SaysOutOfScope(ws) ==
    \E k \in 1..Len(ws) :
       \/ ws[k] \in {"This is out of scope.", "OUT_OF_SCOPE"}
       \/ k < Len(ws) /\ ws[k] = "Out Of" /\ ws[k + 1] = " Scope"

\* C23: for every non-empty text the text-only result has the text as summary, no
\* data, count 0, no error, filters {limit} when a limit was given and {} otherwise, and
\* intent out_of_scope exactly when the lower-cased text contains "out of scope" or
\* "out_of_scope", whatever other keyword it contains; else clarification_needed.
C23_TextOnlyResult ==
    TextClassified =>
       /\ resp.value.summary = call.text
       /\ resp.value.data = <<>>
       /\ resp.value.count = 0
       /\ resp.value.error = None
       /\ resp.value.filters = IF call.limit # None THEN [limit |-> Val(call.limit)]
                               ELSE EmptyDict
       /\ resp.value.intent = IF SaysOutOfScope(call.words) THEN "out_of_scope"
                              ELSE "clarification_needed"

\* C23 witness: a text with a clarification keyword before an upper-case OUT_OF_SCOPE
C23_OutOfScopeWins ==
    /\ TextClassified
    /\ call.words = <<"clarification", "OUT_OF_SCOPE">>
    /\ call.limit = None
    /\ resp.value.intent = "out_of_scope"
    /\ resp.value.summary = "clarificationOUT_OF_SCOPE"

(***************************************************************************)
(* The Direct-Prompt strategy, seen from outside: the provider's answer    *)
(* (call.world) against the result of the call.                            *)
(***************************************************************************)
DirectPromptAnswered ==
    /\ ServiceReturned
    /\ call.provider = "openrouter"
    /\ ~CredentialMissing("openrouter")
    /\ call.world.kind = "response"

Successful(status) == status \in 200..299

\* C24: in the Direct-Prompt path every response whose status is not 2xx gives
\* clarification_needed "OpenRouter request failed." with error "HTTP <code>: ..."; it
\* is not parsed as a plan and the Query Tool is not invoked.
C24_Non2xxIsFailure ==
    (DirectPromptAnswered /\ ~Successful(call.world.status))
        => /\ resp.kind = "return"
           /\ resp.value = ErrorResult("clarification_needed", "OpenRouter request failed.",
                                       Some("HTTP " \o ToString(call.world.status)))
           /\ ~Has(ops, "query_users_tool")

\* the body is not JSON, has no choices[0].message.content, or its content is null or
\* a string that does not spell a JSON object
MalformedAnswer ==
    \/ ~call.world.json
    \/ call.world.content.form \in {"missing", "null", "array", "text"}

\* C25: for a successful HTTP response in the Direct-Prompt path every malformed
\* payload gives a clarification_needed result: the call raises nothing and does not
\* invoke the Query Tool.
C25_MalformedPayloadClarifies ==
    (DirectPromptAnswered /\ Successful(call.world.status) /\ MalformedAnswer)
        => /\ resp.kind = "return"
           /\ resp.value.intent = "clarification_needed"
           /\ resp.value.error # None
           /\ ~Has(ops, "query_users_tool")

\* the same answer with the object bare in the content
BareAnswer ==
    query_users(settings, environ, call.limit, "openrouter",
                [call.world EXCEPT !.content.form = "object"], store, call.fault)

\* C26: when the content is not a JSON object but holds one in a fenced code block
\* (``` or ```json, the object, ```), the request resolves exactly as if the object had
\* been returned bare.
C26_FencedObjectExtracted ==
    (/\ DirectPromptAnswered
     /\ Successful(call.world.status)
     /\ call.world.json
     /\ call.world.content.form \in {"fenced", "fenced_bare"})
        => /\ resp.kind = BareAnswer.kind
           /\ resp.kind = "return" => resp.value = BareAnswer.value

\* the provider answered 2xx with a bare JSON object that has no `intent` key
PlanAnswer ==
    /\ DirectPromptAnswered
    /\ Successful(call.world.status)
    /\ call.world.json
    /\ call.world.content.form = "object"
    /\ "intent" \notin DOMAIN call.world.content.value

\* the model's key/value pairs, with the caller's limit when the caller gave one and
\* the model gave none
ExpectedPlan ==
    IF call.limit # None /\ "limit" \notin DOMAIN call.world.content.value
    THEN call.world.content.value @@ [limit |-> call.limit]
    ELSE call.world.content.value

\* what the Query Tool gives for these arguments in this call
ToolOn(kwargs) == query_users_tool(kwargs, store, call.fault)

SameAsTool(out) ==
    /\ resp.kind = out.kind
    /\ out.kind = "return" => resp.value = Val(UsersQueryResult_validate(out.value))
    /\ out.kind = "raise" => resp.exc = out.exc

LookupPlanAnswer ==
    /\ EndpointAnswered
    /\ call.payload.provider = "openrouter"
    /\ ~CredentialMissing("openrouter")
    /\ call.world.kind = "response"
    /\ Successful(call.world.status)
    /\ call.world.json
    /\ call.world.content.form = "object"
    /\ DOMAIN call.world.content.value \in {{"lookup_type", "user_id"},
                                            {"lookup_type", "email"},
                                            {"lookup_type", "username"}}
    /\ call.world.content.value.lookup_type \in {Some("id"), Some("email"), Some("username")}
    /\ call.fault = "none"

\* C29: in the Direct-Prompt path, for a model plan with lookup_type id, email or
\* username, a valid identifier and no limit, and any caller limit in 1..100, the result
\* is the result of the Query Tool on the plan alone: handing the caller's limit on does
\* not turn the plan into a rejected one.
C29_LimitInjectionHarmless ==
    LookupPlanAnswer
        => /\ call.forwarded \in MinLimit..MaxLimit
           /\ resp.status = 200
           /\ \A k \in {"intent", "summary", "data", "count", "error"} :
                 resp.value[k] = ToolOn(call.world.content.value).value[k]

\* C30: every user record in the data of a result returned by query_users, on either
\* provider path, was returned by a data-store read of that same call: a result with
\* records comes only from a call that read the data store, and each record is one
\* of the stored users.
C30_DataComesFromAStoreRead ==
    (ServiceReturned /\ resp.kind = "return" /\ resp.value.data # <<>>)
        => /\ \E k \in 1..Len(ops) : ops[k] \in ReadOps
           /\ \A i \in 1..Len(resp.value.data) :
                 \E j \in 1..Len(store) :
                    /\ store[j].id = resp.value.data[i].id
                    /\ store[j].username = resp.value.data[i].username
                    /\ store[j].email = resp.value.data[i].email

====
